---------------------------- MODULE Spec2Model ----------------------------
(***************************************************************************)
(* Document ingestion and chunking pipeline of the grantee-insights        *)
(* chatbot: runIngestion (lib/ingestion), syncDriveFiles (lib/drive-sync), *)
(* the sync state tracker (lib/drive-sync-state), the vector-store writes  *)
(* (lib/vector-store), the identity resolver (lib/grant-lookup) and the    *)
(* segmentation engine (lib/chunking).                                     *)
(*                                                                         *)
(* Representation of strings.  TLA+ has no character operations, so        *)
(*   - a name (grantee name) is a sequence of one-character strings;       *)
(*   - a document text is the sequence of its paragraphs (the pieces       *)
(*     between blank lines); a paragraph is one line, given by its length  *)
(*     in characters, its kind (what the line looks like to the heading    *)
(*     and question detectors) and the keywords the section patterns can   *)
(*     find in it;                                                         *)
(*   - a file name is given by its characters, on which the document-type  *)
(*     patterns are tested, by the reference number REF_NUMBER_PATTERN     *)
(*     finds in it and by the residue that is left for the grantee name.   *)
(***************************************************************************)
EXTENDS Integers, Sequences, FiniteSets, TLC

VARIABLES
    store,          \* the Pinecone index: a set of records (functions field -> value)
    drive,          \* modifiedTime of every Drive file (a version number)
    grantCache,     \* grant-lookup.ts: let grantCache (Null or the list of grants)
    chunkCounter,   \* chunking.ts: let chunkCounter
    run,            \* the running entry point: its options, loop position and result
    pc,             \* "idle", "folder", "file", "done", "failed", "called"
    ret,            \* what the last direct call of a sync-state function returned
    calls,          \* history: number of store write calls (upsertRecords, deleteMany)
    hist,           \* history of the current run (what was listed, visited, thrown)
    last,           \* history: the last file step of an entry point
    synced,         \* history: file id -> versions syncDriveFiles has ingested
    origin,         \* history: chunk uid -> id of the Drive file it was made from
    stamped,        \* history: generation stamped by each sync run that stored chunks
    faults,         \* number of collaborator failures injected so far
    runs,           \* number of entry-point invocations started so far
    procs,          \* the calls, runs or processes under way at the same time, each
                    \* with its position and its local values (empty when only one)
    promises,       \* summary-generator.ts: the generateAndCache promises created
    inflightGenerations  \* summary-generator.ts: const inflightGenerations

vars == <<store, drive, grantCache, chunkCounter, run, pc, ret, calls, hist,
          last, synced, origin, stamped, faults, runs, procs, promises,
          inflightGenerations>>

Null == "null"

-----------------------------------------------------------------------------
(* Bounds of the model *)

MaxRuns == 2        \* entry-point invocations per behaviour
MaxFaults == 2      \* collaborator failures per behaviour
MaxVersion == 2     \* distinct modifiedTime values of one Drive file
MaxEdited == 1      \* Drive files edited per behaviour
MaxStored == 2      \* records in an arbitrary pre-existing index (SpecTracker)
MaxParas == 3       \* paragraphs of a text handed to a segmentation strategy
MaxRegistry == 3    \* rows of the registry sheet (SpecLookup)
MaxWords == 3       \* words of a file name (SpecFilename)
MaxClock == 3       \* readings of the clock, in milliseconds (SpecUid)
MaxMade == 3        \* chunks made by one process (SpecUid)
MaxCalls == 3       \* calls of one entry point under way or finished (SpecSummary)

-----------------------------------------------------------------------------
(* Generic helpers *)

RECURSIVE SumSeq(_)
SumSeq(s) == IF s = <<>> THEN 0 ELSE Head(s) + SumSeq(Tail(s))

RECURSIVE Flatten(_)
Flatten(ss) == IF ss = <<>> THEN <<>> ELSE Head(ss) \o Flatten(Tail(ss))

SelectIdx(s, P(_)) ==
    LET RECURSIVE go(_)
        go(i) == IF i > Len(s) THEN <<>>
                 ELSE IF P(i) THEN <<i>> \o go(i + 1) ELSE go(i + 1)
    IN go(1)

\* s is a contiguous part of t (String.prototype.includes)
Includes(t, s) ==
    \E i \in 0..(Len(t) - Len(s)) : SubSeq(t, i + 1, i + Len(s)) = s

\* s occurs in t in order, other things allowed in between (a /a.*b/ pattern)
RECURSIVE IsSubsequence(_, _)
IsSubsequence(s, t) ==
    IF s = <<>> THEN TRUE
    ELSE IF t = <<>> THEN FALSE
    ELSE IF Head(s) = Head(t) THEN IsSubsequence(Tail(s), Tail(t))
    ELSE IsSubsequence(s, Tail(t))

UpperCase == {"A", "B", "C", "D", "E", "F", "G", "H", "I", "J", "K", "L", "M",
              "N", "O", "P", "Q", "R", "S", "T", "U", "V", "W", "X", "Y", "Z"}
LowerCase == <<"a", "b", "c", "d", "e", "f", "g", "h", "i", "j", "k", "l", "m",
               "n", "o", "p", "q", "r", "s", "t", "u", "v", "w", "x", "y", "z">>
UpperCaseInOrder == <<"A", "B", "C", "D", "E", "F", "G", "H", "I", "J", "K", "L", "M",
                      "N", "O", "P", "Q", "R", "S", "T", "U", "V", "W", "X", "Y", "Z">>
LowerOf == [c \in UpperCase |->
              LowerCase[CHOOSE k \in 1..26 : UpperCaseInOrder[k] = c]]

toLowerCase(s) == [i \in 1..Len(s) |-> IF s[i] \in UpperCase THEN LowerOf[s[i]] ELSE s[i]]

RECURSIVE trimLeft(_)
trimLeft(s) == IF s # <<>> /\ Head(s) = " " THEN trimLeft(Tail(s)) ELSE s

RECURSIVE trimRight(_)
trimRight(s) ==
    IF s # <<>> /\ s[Len(s)] = " " THEN trimRight(SubSeq(s, 1, Len(s) - 1)) ELSE s

trim(s) == trimRight(trimLeft(s))

\* s.split(/\s+/) of a trimmed string: the maximal runs of non-space characters
RECURSIVE splitWords(_, _)
splitWords(s, cur) ==
    IF s = <<>> THEN (IF cur = <<>> THEN <<>> ELSE <<cur>>)
    ELSE IF Head(s) = " "
         THEN (IF cur = <<>> THEN <<>> ELSE <<cur>>) \o splitWords(Tail(s), <<>>)
         ELSE splitWords(Tail(s), Append(cur, Head(s)))

-----------------------------------------------------------------------------
(* Types (types/documents.ts) *)

DocumentType == {"grant_description", "midpoint_checkin_transcript",
                 "midpoint_survey", "impact_survey", "closeout_transcript"}

SectionType == {"project_summary", "scope_of_work", "partnerships", "technology",
                "timeline", "outcomes", "measurement", "budget", "progress",
                "challenges", "pivots", "data_measurement", "org_changes",
                "future_plans", "support_requests", "notable_quotes",
                "transcript_summary", "stage", "early_signals", "breadth_scale",
                "depth_outcomes", "learnings", "feedback", "financial",
                "current_status", "full_document"}

-----------------------------------------------------------------------------
(* The environment: the registry sheet, the Drive folders and their files *)

AcmeOrg == <<"A", "c", "m", "e", " ", "O", "r", "g">>
SolarSister == <<"S", "o", "l", "a", "r", " ", "S", "i", "s", "t", "e", "r">>

\* The rows of the grants sheet (the fields of GrantRecord the claims read).
SheetGrants ==
    << [reference_number |-> "2024010B", grantee_name |-> AcmeOrg],
       [reference_number |-> "2025001", grantee_name |-> SolarSister] >>

DRIVE_FOLDERS ==
    << [folderId |-> "1Ktim", label |-> "Annual Impact Reports",
        documentType |-> "impact_survey"],
       [folderId |-> "1s8Cy", label |-> "Grantee Check-in Transcripts",
        documentType |-> "midpoint_checkin_transcript"],
       [folderId |-> "1Sg7e", label |-> "Colombia",
        documentType |-> "grant_description"],
       [folderId |-> "1hItZ", label |-> "Kenya",
        documentType |-> "grant_description"],
       [folderId |-> "19dfF", label |-> "Grant Descriptions US",
        documentType |-> "grant_description"] >>

MimePdf == "application/pdf"
MimeDocx == "application/vnd.openxmlformats-officedocument.wordprocessingml.document"
MimeDoc == "application/msword"
MimePptx == "application/vnd.openxmlformats-officedocument.presentationml.presentation"
MimeTxt == "text/plain"
MimeCsv == "text/csv"
MimeGDoc == "application/vnd.google-apps.document"
MimeGSheet == "application/vnd.google-apps.spreadsheet"
SUPPORTED_MIME_TYPES == {MimePdf, MimeDocx, MimeDoc, MimePptx, MimeTxt, MimeCsv, MimeGDoc}

isSupportedFile(mimeType) == mimeType \in SUPPORTED_MIME_TYPES

\* File names, each given by its characters, the reference number in it and
\* what extractGranteeName's replacements leave of it:
\*   "2024010B_Acme Org_GrantDesc.pdf", "Solar Sister_MidCheckInTranscript.docx",
\*   "2026044_xyz_Survey.pdf", "Portfolio.gsheet".
FileNames ==
    [n1 |-> [text |-> "2024010B_Acme Org_GrantDesc.pdf", ref |-> "2024010B",
             chars |-> <<"2", "0", "2", "4", "0", "1", "0", "B", "_", "A", "c", "m", "e", " ", "O", "r", "g", "_", "G", "r", "a", "n", "t", "D", "e", "s", "c", ".", "p", "d", "f">>,
             residue |-> AcmeOrg],
     n2 |-> [text |-> "Solar Sister_MidCheckInTranscript.docx", ref |-> Null,
             chars |-> <<"S", "o", "l", "a", "r", " ", "S", "i", "s", "t", "e", "r", "_", "M", "i", "d", "C", "h", "e", "c", "k", "I", "n", "T", "r", "a", "n", "s", "c", "r", "i", "p", "t", ".", "d", "o", "c", "x">>,
             residue |-> SolarSister \o <<" ", "M", "i", "d">>],
     n3 |-> [text |-> "2026044_xyz_Survey.pdf", ref |-> "2026044",
             chars |-> <<"2", "0", "2", "6", "0", "4", "4", "_", "x", "y", "z", "_", "S", "u", "r", "v", "e", "y", ".", "p", "d", "f">>,
             residue |-> <<"x", "y", "z">>],
     n4 |-> [text |-> "Portfolio.gsheet", ref |-> Null,
             chars |-> <<"P", "o", "r", "t", "f", "o", "l", "i", "o", ".", "g", "s", "h", "e", "e", "t">>,
             residue |-> <<"P", "o", "r", "t", "f", "o", "l", "i", "o">>],
     n5 |-> [text |-> "2025001_Solar Sister_Survey.txt", ref |-> "2025001",
             chars |-> <<"2", "0", "2", "5", "0", "0", "1", "_", "S", "o", "l", "a", "r", " ", "S", "i", "s", "t", "e", "r", "_", "S", "u", "r", "v", "e", "y", ".", "t", "x", "t">>,
             residue |-> SolarSister],
     n6 |-> [text |-> "2024010B_Acme Org_Deck.pptx", ref |-> "2024010B",
             chars |-> <<"2", "0", "2", "4", "0", "1", "0", "B", "_", "A", "c", "m", "e", " ", "O", "r", "g", "_", "D", "e", "c", "k", ".", "p", "p", "t", "x">>,
             residue |-> AcmeOrg \o <<" ", "D", "e", "c", "k">>]]

\* The Drive files (DriveFileInfo without modifiedTime, which is the variable drive).
DriveFiles ==
    [f1 |-> [id |-> "f1", name |-> "n1", mimeType |-> MimePdf],
     f2 |-> [id |-> "f2", name |-> "n2", mimeType |-> MimeDocx],
     f3 |-> [id |-> "f3", name |-> "n3", mimeType |-> MimePdf],
     f4 |-> [id |-> "f4", name |-> "n4", mimeType |-> MimeGSheet]]

FileIds == DOMAIN DriveFiles

FileInfo(id) == [id |-> id, name |-> DriveFiles[id].name,
                 mimeType |-> DriveFiles[id].mimeType, modifiedTime |-> drive[id]]

\* What listFilesRecursive finds in each folder, in listing order.
FolderListing(folderId) ==
    CASE folderId = "1Ktim" -> <<"f3">>
      [] folderId = "1s8Cy" -> <<"f4", "f2">>
      [] folderId = "19dfF" -> <<"f1">>
      [] OTHER -> <<>>

-----------------------------------------------------------------------------
(* Filename Classifier (filename-parser.ts) *)

\* DOC_TYPE_PATTERNS, in declared order.  A pattern is the sequence of its
\* pieces, which .* joins; a piece is the sequence of its literals, which \s*
\* joins: /mid.*survey/ is << <<"mid">>, <<"survey">> >> and /grant\s*desc/ is
\* << <<"grant", "desc">> >> (each literal a character sequence).
DOC_TYPE_PATTERNS ==
    << [pat |-> <<<<<<"g", "r", "a", "n", "t">>, <<"d", "e", "s", "c">>>>>>,
        type |-> "grant_description"],
       [pat |-> <<<<<<"g", "r", "a", "n", "t">>, <<"p", "r", "o", "p", "o", "s", "a", "l">>>>>>,
        type |-> "grant_description"],
       [pat |-> <<<<<<"p", "r", "o", "j", "e", "c", "t">>, <<"d", "e", "s", "c">>>>>>,
        type |-> "grant_description"],
       [pat |-> <<<<<<"m", "i", "d", "p", "o", "i", "n", "t">>>>, <<<<"t", "r", "a", "n", "s", "c", "r", "i", "p", "t">>>>>>,
        type |-> "midpoint_checkin_transcript"],
       [pat |-> <<<<<<"m", "i", "d">>>>, <<<<"c", "h", "e", "c", "k">>>>, <<<<"i", "n">>>>, <<<<"t", "r", "a", "n", "s", "c", "r", "i", "p", "t">>>>>>,
        type |-> "midpoint_checkin_transcript"],
       [pat |-> <<<<<<"c", "h", "e", "c", "k", "i", "n">>>>, <<<<"t", "r", "a", "n", "s", "c", "r", "i", "p", "t">>>>>>,
        type |-> "midpoint_checkin_transcript"],
       [pat |-> <<<<<<"c", "h", "e", "c", "k">>>>, <<<<"i", "n">>>>, <<<<"t", "r", "a", "n", "s", "c", "r", "i", "p", "t">>>>>>,
        type |-> "midpoint_checkin_transcript"],
       [pat |-> <<<<<<"m", "i", "d", "p", "o", "i", "n", "t">>>>, <<<<"s", "u", "r", "v", "e", "y">>>>>>,
        type |-> "midpoint_survey"],
       [pat |-> <<<<<<"m", "i", "d">>>>, <<<<"s", "u", "r", "v", "e", "y">>>>>>,
        type |-> "midpoint_survey"],
       [pat |-> <<<<<<"i", "m", "p", "a", "c", "t">>>>, <<<<"s", "u", "r", "v", "e", "y">>>>>>,
        type |-> "impact_survey"],
       [pat |-> <<<<<<"a", "n", "n", "u", "a", "l">>>>, <<<<"s", "u", "r", "v", "e", "y">>>>>>,
        type |-> "impact_survey"],
       [pat |-> <<<<<<"i", "m", "p", "a", "c", "t">>>>, <<<<"r", "e", "p", "o", "r", "t">>>>>>,
        type |-> "impact_survey"],
       [pat |-> <<<<<<"a", "n", "n", "u", "a", "l">>>>, <<<<"r", "e", "p", "o", "r", "t">>>>>>,
        type |-> "impact_survey"],
       [pat |-> <<<<<<"c", "l", "o", "s", "e", "o", "u", "t">>>>, <<<<"t", "r", "a", "n", "s", "c", "r", "i", "p", "t">>>>>>,
        type |-> "closeout_transcript"],
       [pat |-> <<<<<<"c", "l", "o", "s", "e">>>>, <<<<"o", "u", "t">>>>, <<<<"t", "r", "a", "n", "s", "c", "r", "i", "p", "t">>>>>>,
        type |-> "closeout_transcript"],
       [pat |-> <<<<<<"c", "l", "o", "s", "e", "o", "u", "t">>>>>>,
        type |-> "closeout_transcript"],
       [pat |-> <<<<<<"c", "l", "o", "s", "e">>>>, <<<<"o", "u", "t">>>>>>,
        type |-> "closeout_transcript"],
       [pat |-> <<<<<<"c", "h", "e", "c", "k">>>>, <<<<"i", "n">>>>>>,
        type |-> "midpoint_checkin_transcript"],
       [pat |-> <<<<<<"c", "h", "e", "c", "k", "i", "n">>>>>>,
        type |-> "midpoint_checkin_transcript"],
       [pat |-> <<<<<<"t", "r", "a", "n", "s", "c", "r", "i", "p", "t">>>>>>,
        type |-> "midpoint_checkin_transcript"],
       [pat |-> <<<<<<"s", "u", "r", "v", "e", "y">>>>>>,
        type |-> "impact_survey"] >>

\* The index after the white space that starts at index i of s
RECURSIVE skipSpaces(_, _)
skipSpaces(s, i) == IF i <= Len(s) /\ s[i] = " " THEN skipSpaces(s, i + 1) ELSE i

\* The number of characters of s consumed when the piece matches right after
\* the first i characters, -1 when it does not
RECURSIVE pieceEnd(_, _, _)
pieceEnd(piece, s, i) ==
    IF piece = <<>> THEN i
    ELSE IF i + Len(Head(piece)) <= Len(s)
            /\ SubSeq(s, i + 1, i + Len(Head(piece))) = Head(piece)
         THEN (IF Tail(piece) = <<>> THEN i + Len(Head(piece))
               ELSE pieceEnd(Tail(piece), s, skipSpaces(s, i + Len(Head(piece)) + 1) - 1))
         ELSE -1

\* pattern.test(s) for a lower-case s: the pieces occur in order from index
\* from on (the earliest end of a piece leaves the most for the later pieces)
RECURSIVE regexTest(_, _, _)
regexTest(pat, s, from) ==
    IF pat = <<>> THEN TRUE
    ELSE LET ends == {pieceEnd(Head(pat), s, i) : i \in from..Len(s)} \ {-1}
         IN /\ ends # {}
            /\ regexTest(Tail(pat), s, CHOOSE e \in ends : \A f \in ends : e <= f)

\* parseFilename's loop without its break: the last matching pattern wins
detectDocumentTypeLastMatch(filename) ==
    LET hits == SelectIdx(DOC_TYPE_PATTERNS,
                          LAMBDA i : regexTest(DOC_TYPE_PATTERNS[i].pat,
                                               toLowerCase(filename), 0))
    IN IF hits = <<>> THEN Null ELSE DOC_TYPE_PATTERNS[hits[Len(hits)]].type

\* parseFilename's loop over DOC_TYPE_PATTERNS with its break; the i flag
\* makes the test one on the lower-cased name
detectDocumentType(filename) ==
    LET hits == SelectIdx(DOC_TYPE_PATTERNS,
                          LAMBDA i : regexTest(DOC_TYPE_PATTERNS[i].pat,
                                               toLowerCase(filename), 0))
    IN IF hits = <<>> THEN Null ELSE DOC_TYPE_PATTERNS[hits[1]].type

\* null for a grantee name (a name is a character sequence; "" is falsy like null)
NoName == <<>>

extractGranteeName(name) ==
    IF Len(trim(name.residue)) < 3 THEN NoName ELSE trim(name.residue)

\* What parseFilename returns for each file name of the model
ParsedFileNames ==
    [n \in DOMAIN FileNames |->
       [referenceNumber |-> FileNames[n].ref,
        documentType |-> detectDocumentType(FileNames[n].chars),
        granteeName |-> extractGranteeName(FileNames[n])]]

parseFilename(n) == ParsedFileNames[n]

-----------------------------------------------------------------------------
(* Identity Resolver (grant-lookup.ts): the matching part of lookupGrant, on a
   loaded cache *)

\* null for a GrantRecord
NoGrant == [reference_number |-> Null, grantee_name |-> NoName]

\* lookupGrant whose word-level loop lets a later record of equal score win
findGrantLatestWins(cache, referenceNumber, granteeName) ==
    LET byRef == SelectIdx(cache, LAMBDA i : cache[i].reference_number = referenceNumber)
        normalized == trim(toLowerCase(granteeName))
        exact == SelectIdx(cache, LAMBDA i :
                    \/ Includes(toLowerCase(cache[i].grantee_name), normalized)
                    \/ Includes(normalized, toLowerCase(cache[i].grantee_name)))
        allWords == splitWords(normalized, <<>>)
        queryWords == [k \in 1..Len(SelectIdx(allWords, LAMBDA i : Len(allWords[i]) > 2)) |->
                         allWords[SelectIdx(allWords, LAMBDA i : Len(allWords[i]) > 2)[k]]]
        matching(i) == Cardinality({k \in 1..Len(queryWords) :
                          Includes(toLowerCase(cache[i].grantee_name), queryWords[k])})
        \* score = matching / Len(queryWords); score >= 0.5 and score > bestScore
        RECURSIVE best(_, _, _)
        best(i, bestIdx, bestCount) ==
            IF i > Len(cache) THEN bestIdx
            ELSE IF matching(i) >= bestCount /\ matching(i) > 0 /\ 2 * matching(i) >= Len(queryWords)
                 THEN best(i + 1, i, matching(i))
                 ELSE best(i + 1, bestIdx, bestCount)
        wordIdx == IF Len(queryWords) > 0 THEN best(1, 0, 0) ELSE 0
    IN IF referenceNumber # Null /\ byRef # <<>> THEN cache[byRef[1]]
       ELSE IF granteeName = NoName THEN NoGrant
       ELSE IF Len(normalized) < 3 THEN NoGrant
       ELSE IF exact # <<>> THEN cache[exact[1]]
       ELSE IF wordIdx # 0 THEN cache[wordIdx]
       ELSE NoGrant

findGrant(cache, referenceNumber, granteeName) ==
    LET byRef == SelectIdx(cache, LAMBDA i : cache[i].reference_number = referenceNumber)
        normalized == trim(toLowerCase(granteeName))
        exact == SelectIdx(cache, LAMBDA i :
                    \/ Includes(toLowerCase(cache[i].grantee_name), normalized)
                    \/ Includes(normalized, toLowerCase(cache[i].grantee_name)))
        allWords == splitWords(normalized, <<>>)
        queryWords == [k \in 1..Len(SelectIdx(allWords, LAMBDA i : Len(allWords[i]) > 2)) |->
                         allWords[SelectIdx(allWords, LAMBDA i : Len(allWords[i]) > 2)[k]]]
        matching(i) == Cardinality({k \in 1..Len(queryWords) :
                          Includes(toLowerCase(cache[i].grantee_name), queryWords[k])})
        \* score = matching / Len(queryWords); score >= 0.5 and score > bestScore
        RECURSIVE best(_, _, _)
        best(i, bestIdx, bestCount) ==
            IF i > Len(cache) THEN bestIdx
            ELSE IF matching(i) > bestCount /\ 2 * matching(i) >= Len(queryWords)
                 THEN best(i + 1, i, matching(i))
                 ELSE best(i + 1, bestIdx, bestCount)
        wordIdx == IF Len(queryWords) > 0 THEN best(1, 0, 0) ELSE 0
    IN IF referenceNumber # Null /\ byRef # <<>> THEN cache[byRef[1]]
       ELSE IF granteeName = NoName THEN NoGrant
       ELSE IF Len(normalized) < 3 THEN NoGrant
       ELSE IF exact # <<>> THEN cache[exact[1]]
       ELSE IF wordIdx # 0 THEN cache[wordIdx]
       ELSE NoGrant

-----------------------------------------------------------------------------
(* Texts.  A paragraph is one line: its length, what it looks like to the
   detectors, and the section keywords it contains.
     body : an ordinary line
     caps : an all-capitals line (a heading for chunkGrantDescription)
     num  : a line "1. ..." (a heading, and a question marker)
     hash : a line "# ..."  (a heading, and a question marker)
     q    : a line "Q1: ..." or "Question 1 ..." (a question marker only)   *)

Para(kind, len, kws) == [kind |-> kind, len |-> len, kws |-> kws]
Body(len) == Para("body", len, {})

\* text.length; the paragraphs of a text are joined by "\n\n"
TextLength(text) == IF text = <<>> THEN 0
                    ELSE SumSeq([i \in 1..Len(text) |-> text[i].len]) + 2 * (Len(text) - 1)

\* A paragraph of white space only
Blank(len) == Para("blank", len, {})

\* p.trim().length of a paragraph
TrimmedLen(p) == IF p.kind = "blank" THEN 0 ELSE p.len

\* text.trim() and text.trim().length on a text given by its paragraphs
RECURSIVE TrimText(_)
TrimText(text) ==
    IF text = <<>> THEN <<>>
    ELSE IF TrimmedLen(Head(text)) = 0 THEN TrimText(Tail(text))
    ELSE IF TrimmedLen(text[Len(text)]) = 0 THEN TrimText(SubSeq(text, 1, Len(text) - 1))
    ELSE text

TrimmedLength(text) == TextLength(TrimText(text))

\* The value of segment.text when the LLM's JSON has no such field.
UndefinedText == << Para("undefined", 0, {}) >>

\* What the Drive holds as the text of each file at each modifiedTime.
FileText(id, version) ==
    CASE id = "f1" ->
           IF version = 1
           THEN << Para("caps", 15, {"project summary"}), Body(300),
                   Para("caps", 6, {"budget"}), Body(200) >>
           ELSE << Para("caps", 15, {"project summary"}), Body(300),
                   Para("caps", 6, {"budget"}), Body(200),
                   Para("caps", 8, {"timeline"}), Body(120) >>
      [] id = "f2" ->
           IF version = 1 THEN << Body(900), Body(800) >> ELSE << Body(1600) >>
      [] id = "f3" ->
           IF version = 1
           THEN << Para("q", 40, {"how many"}), Body(100),
                   Para("q", 30, {"challeng"}), Body(80) >>
           ELSE << Body(30) >>
      [] id = "f5" -> << Body(30) >>
      [] id = "f7" -> << Body(400), Body(300) >>
      [] OTHER -> <<>>

-----------------------------------------------------------------------------
(* Segmentation Engine (chunking.ts).  A strategy returns the chunks without
   their uid; makeChunk numbers them in order *)

Draft(text, index, sectionType, heading) ==
    [text |-> text, chunk_index |-> index, section_type |-> sectionType,
     section_heading |-> heading]

\* The paragraph-accumulating loop shared by chunkBySize and
\* chunkTranscriptByParagraph: the groups of paragraphs, in order.
RECURSIVE accumulate(_, _, _, _)
accumulate(paras, maxChars, currentChunk, currentLength) ==
    IF paras = <<>>
    THEN (IF Len(currentChunk) > 0 THEN <<currentChunk>> ELSE <<>>)
    ELSE IF currentLength + Head(paras).len > maxChars /\ Len(currentChunk) > 0
         THEN <<currentChunk>> \o
              accumulate(Tail(paras), maxChars, <<Head(paras)>>, Head(paras).len)
         ELSE accumulate(Tail(paras), maxChars, Append(currentChunk, Head(paras)),
                         currentLength + Head(paras).len)

Filter(s, P(_)) == [k \in 1..Len(SelectIdx(s, P)) |-> s[SelectIdx(s, P)[k]]]

chunkBySize(text, maxChars) ==
    LET paragraphs == Filter(text, LAMBDA i : TrimmedLen(text[i]) > 0)
        groups == accumulate(paragraphs, maxChars, <<>>, 0)
        chunks == [k \in 1..Len(groups) |->
                     Draft(groups[k], k - 1, "full_document", [kind |-> "Section", n |-> k])]
    IN IF Len(chunks) = 0 /\ TrimmedLength(text) > 0
       THEN << Draft(text, 0, "full_document", [kind |-> "Full Document"]) >>
       ELSE chunks

TARGET_SIZE == 1500

chunkTranscriptByParagraph(text) ==
    LET paragraphs == Filter(text, LAMBDA i : TrimmedLen(text[i]) > 20)
        groups == accumulate(paragraphs, TARGET_SIZE, <<>>, 0)
    IN [k \in 1..Len(groups) |->
          Draft(groups[k], k - 1, "progress", [kind |-> "Transcript segment", n |-> k])]

FirstMatch(patterns, kws, default) ==
    LET hits == SelectIdx(patterns, LAMBDA i : patterns[i].pat \cap kws # {})
    IN IF hits = <<>> THEN default ELSE patterns[hits[1]].type

GRANT_DESC_SECTIONS ==
    << [pat |-> {"project summary", "executive summary", "overview"}, type |-> "project_summary"],
       [pat |-> {"scope of work", "scope"}, type |-> "scope_of_work"],
       [pat |-> {"partner", "collaborat"}, type |-> "partnerships"],
       [pat |-> {"technolog", "tech", "digital", "ai", "software"}, type |-> "technology"],
       [pat |-> {"timeline", "schedule", "milestones", "implementation plan"}, type |-> "timeline"],
       [pat |-> {"outcome", "impact", "result", "who?", "how many", "what impact"}, type |-> "outcomes"],
       [pat |-> {"measur", "evaluation", "m&e", "metrics", "indicator"}, type |-> "measurement"],
       [pat |-> {"budget", "financ", "cost"}, type |-> "budget"] >>

detectSectionType(kws) == FirstMatch(GRANT_DESC_SECTIONS, kws, "project_summary")

IMPACT_SURVEY_SECTIONS ==
    << [pat |-> {"breadth", "scale", "reach", "how many", "users", "participants"}, type |-> "breadth_scale"],
       [pat |-> {"depth", "outcome", "impact", "change", "benefit", "income"}, type |-> "depth_outcomes"],
       [pat |-> {"learn", "lesson", "insight", "takeaway"}, type |-> "learnings"],
       [pat |-> {"challeng", "obstacle", "barrier", "difficult"}, type |-> "challenges"],
       [pat |-> {"future", "plan", "next", "forward"}, type |-> "future_plans"],
       [pat |-> {"feedback", "experience", "cohort", "relationship"}, type |-> "feedback"],
       [pat |-> {"financ", "fund", "invest", "co-invest", "budget", "revenue"}, type |-> "financial"] >>

detectImpactSurveySection(kws) == FirstMatch(IMPACT_SURVEY_SECTIONS, kws, "depth_outcomes")

\* isHeading: a short line that is all caps, starts with # or with "1. "
isHeading(p) == /\ p.len > 0 /\ p.len < 100
                /\ p.kind \in {"caps", "hash", "num"}
                /\ p.len > 2

\* The sections chunkGrantDescription finds.  The lines of a text are its
\* paragraphs with one empty line between two of them, so currentBody is
\* empty exactly right after a heading that is the first or the last line.
RECURSIVE sectionsOf(_, _, _, _, _)
sectionsOf(text, i, heading, body, bodyLines) ==
    LET section == [heading |-> heading, body |-> body,
                    sectionType |-> IF heading = <<>> THEN "project_summary"
                                    ELSE detectSectionType(heading[1].kws)]
    IN IF i > Len(text)
       THEN (IF bodyLines > 0 THEN <<section>> ELSE <<>>)
       ELSE IF isHeading(text[i])
            THEN (IF bodyLines > 0 THEN <<section>> ELSE <<>>) \o
                 sectionsOf(text, i + 1, <<text[i]>>, <<>>, IF i < Len(text) THEN 1 ELSE 0)
            ELSE sectionsOf(text, i + 1, heading, Append(body, text[i]),
                            bodyLines + (IF i < Len(text) THEN 2 ELSE 1))

\* chunkGrantDescription taking the sections as soon as there is one
chunkGrantDescriptionAnySection(text) ==
    LET sections == IF text = <<>>
                    THEN << [heading |-> <<>>, body |-> <<>>, sectionType |-> "project_summary"] >>
                    ELSE sectionsOf(text, 1, <<>>, <<>>, 0)
    IN IF Len(sections) > 0
       THEN [k \in 1..Len(sections) |->
               Draft(TrimText(sections[k].body), k - 1, sections[k].sectionType,
                     [kind |-> "heading", h |-> sections[k].heading])]
       ELSE chunkBySize(text, 2000)

chunkGrantDescription(text) ==
    LET sections == IF text = <<>>
                    THEN << [heading |-> <<>>, body |-> <<>>, sectionType |-> "project_summary"] >>
                    ELSE sectionsOf(text, 1, <<>>, <<>>, 0)
        kept == SelectIdx(sections, LAMBDA i : ~(TrimmedLength(sections[i].body) < 20))
    IN IF Len(sections) > 1
       THEN [k \in 1..Len(kept) |->
               Draft(TrimText(sections[kept[k]].body), kept[k] - 1, sections[kept[k]].sectionType,
                     [kind |-> "heading", h |-> sections[kept[k]].heading])]
       ELSE chunkBySize(text, 2000)

\* splitByQuestions: the text is cut before every line that starts like a
\* question ("Q1:", "Question 1", "1. ", "# "); a part's question is its first line.
isQuestionStart(p) == p.kind \in {"q", "num", "hash"}

RECURSIVE splitByQuestions(_, _)
splitByQuestions(text, cur) ==
    IF text = <<>> THEN (IF TrimText(cur) = <<>> THEN <<>> ELSE <<TrimText(cur)>>)
    ELSE IF isQuestionStart(Head(text)) /\ cur # <<>>
         THEN (IF TrimText(cur) = <<>> THEN <<>> ELSE <<TrimText(cur)>>)
                \o splitByQuestions(Tail(text), <<Head(text)>>)
         ELSE splitByQuestions(Tail(text), Append(cur, Head(text)))

chunkImpactSurvey(text) ==
    LET qaPairs == splitByQuestions(text, <<>>)
        kept == SelectIdx(qaPairs, LAMBDA i : ~(TextLength(qaPairs[i]) < 20))
    IN IF Len(qaPairs) > 1
       THEN [k \in 1..Len(kept) |->
               Draft(qaPairs[kept[k]], kept[k] - 1,
                     detectImpactSurveySection(qaPairs[kept[k]][1].kws),
                     [kind |-> "question", q |-> qaPairs[kept[k]][1]])]
       ELSE chunkBySize(text, 1500)

MIDPOINT_SURVEY_TYPES == <<"stage", "progress", "early_signals", "challenges">>

chunkMidpointSurvey(text) ==
    LET qaPairs == splitByQuestions(text, <<>>)
    IN IF Len(qaPairs) > 1 /\ Len(qaPairs) <= 6
       THEN [k \in 1..Len(qaPairs) |->
               Draft(qaPairs[k], k - 1,
                     IF k <= Len(MIDPOINT_SURVEY_TYPES) THEN MIDPOINT_SURVEY_TYPES[k]
                     ELSE "full_document",
                     [kind |-> "question", q |-> qaPairs[k][1]])]
       ELSE << Draft(text, 0, "full_document", [kind |-> "Midpoint Survey"]) >>

-----------------------------------------------------------------------------
(* LLM-assisted transcript segmentation (chunking.ts, chunkTranscriptWithClaude).
   An LLM response is: no API key configured, generateText throws, or a text,
   which is JSON or not; a JSON value is null or an object (a function from
   its keys to their values) *)

JsonNull == [t |-> "null", o |-> <<>>]
JsonObject(o) == [t |-> "object", o |-> o]

LlmNoKey == [kind |-> "no_key", json |-> FALSE, value |-> JsonNull]
LlmThrows == [kind |-> "throws", json |-> FALSE, value |-> JsonNull]
LlmNotJson == [kind |-> "text", json |-> FALSE, value |-> JsonNull]
LlmJson(v) == [kind |-> "text", json |-> TRUE, value |-> v]

\* {"segments":[{"topic_label":"challenges",...},{"topic_label":"risks",...}],"summary":"..."}
LlmValid ==
    LlmJson(JsonObject(
      [segments |-> << [topic_label |-> "challenges", heading |-> "h1", text |-> <<Body(400)>>],
                       [topic_label |-> "risks", heading |-> "h2", text |-> <<Body(300)>>] >>,
       summary |-> <<Body(200)>>]))
\* "null"
LlmJsonNull == LlmJson(JsonNull)
\* {"summary":"..."}
LlmNoSegments == LlmJson(JsonObject([summary |-> <<Body(200)>>]))
\* {"segments":[{"topic_label":"progress","heading":"h1"}],"summary":"..."}
LlmSegmentWithoutText ==
    LlmJson(JsonObject(
      [segments |-> << [topic_label |-> "progress", heading |-> "h1"] >>,
       summary |-> <<Body(200)>>]))

\* {"segments":[{"topic_label":"constructor","heading":"h1","text":"..."}],"summary":"..."}
LlmInheritedLabel ==
    LlmJson(JsonObject(
      [segments |-> << [topic_label |-> "constructor", heading |-> "h1",
                        text |-> <<Body(400)>>] >>,
       summary |-> <<Body(200)>>]))

LlmResponses == {LlmNoKey, LlmThrows, LlmNotJson, LlmValid, LlmJsonNull,
                 LlmNoSegments, LlmSegmentWithoutText}

\* The response is JSON of the structure {segments: [{topic_label, heading, text}], summary}
IsExpectedStructure(r) ==
    /\ r.kind = "text" /\ r.json /\ r.value.t = "object"
    /\ {"segments", "summary"} \subseteq DOMAIN r.value.o
    /\ \A i \in 1..Len(r.value.o.segments) :
          {"topic_label", "heading", "text"} \subseteq DOMAIN r.value.o.segments[i]

\* The keys every object literal inherits from Object.prototype; mapping[key]
\* is then the inherited member (a function or an object), which ?? lets through
ObjectPrototypeKeys == {"constructor", "toString", "valueOf", "hasOwnProperty",
                        "isPrototypeOf", "propertyIsEnumerable", "toLocaleString",
                        "__proto__"}

\* What mapping[key] is for an inherited key: not a string
InheritedMember(key) == "Object.prototype." \o key

mapTopicLabel(label) ==
    IF label \in {"progress", "challenges", "pivots", "data_measurement", "org_changes",
                  "future_plans", "support_requests", "notable_quotes"}
    THEN label
    ELSE IF label \in ObjectPrototypeKeys THEN InheritedMember(label)
    ELSE "progress"

\* JSON.parse throws, or parsed.segments.length is a TypeError
ClaudeParseThrows(r) ==
    \/ ~r.json
    \/ r.value.t = "null"
    \/ "segments" \notin DOMAIN r.value.o

chunkTranscriptWithClaude(text, documentType, r) ==
    LET parsed == r.value.o
        seg(i) == parsed.segments[i]
        segChunks == [i \in 1..Len(parsed.segments) |->
            Draft(IF "text" \in DOMAIN seg(i) THEN seg(i).text ELSE UndefinedText,
                  i - 1,
                  mapTopicLabel(IF "topic_label" \in DOMAIN seg(i)
                                THEN seg(i).topic_label ELSE "undefined"),
                  [kind |-> "llm",
                   h |-> IF "heading" \in DOMAIN seg(i) THEN seg(i).heading ELSE "undefined"])]
        summary == IF "summary" \in DOMAIN parsed /\ parsed.summary # <<>>
                   THEN << Draft(parsed.summary, Len(parsed.segments), "transcript_summary",
                                 [kind |-> "Transcript Summary",
                                  closeout |-> (documentType = "closeout_transcript")]) >>
                   ELSE <<>>
    IN IF r.kind = "no_key" THEN chunkTranscriptByParagraph(text)
       ELSE IF r.kind = "throws" \/ ClaudeParseThrows(r) THEN chunkTranscriptByParagraph(text)
       ELSE segChunks \o summary

\* chunkDocument's dispatch: the chunks without base metadata and uid
chunkStrategy(text, documentType, useClaudeChunking, r) ==
    CASE documentType = "grant_description" -> chunkGrantDescription(text)
      [] documentType \in {"midpoint_checkin_transcript", "closeout_transcript"} ->
           IF useClaudeChunking THEN chunkTranscriptWithClaude(text, documentType, r)
           ELSE chunkTranscriptByParagraph(text)
      [] documentType = "midpoint_survey" -> chunkMidpointSurvey(text)
      [] documentType = "impact_survey" -> chunkImpactSurvey(text)
      [] OTHER -> chunkBySize(text, 1500)

\* chunkDocument consults the LLM for this document
UsesClaude(documentType, useClaudeChunking) ==
    useClaudeChunking /\ documentType \in {"midpoint_checkin_transcript", "closeout_transcript"}

buildBaseMetadata(doc, grant) ==
    [reference_number |-> IF doc.referenceNumber # Null THEN doc.referenceNumber
                          ELSE IF grant # NoGrant THEN grant.reference_number ELSE "",
     grantee_name |-> IF doc.granteeName # NoName THEN doc.granteeName
                      ELSE IF grant # NoGrant THEN grant.grantee_name ELSE NoName,
     document_type |-> doc.documentType,
     document_date |-> doc.file.modifiedTime,
     source_file |-> doc.file.name]

\* makeChunk: the k-th chunk made after the counter stood at counter
makeChunk(draft, base, counter, k) ==
    [chunkUid |-> counter + k,
     text |-> draft.text,
     metadata |-> base @@ [chunk_index |-> draft.chunk_index,
                           section_type |-> draft.section_type,
                           section_heading |-> draft.section_heading,
                           chunk_uid |-> counter + k]]

chunkDocument(doc, grant, useClaudeChunking, r, counter) ==
    LET drafts == chunkStrategy(doc.text, doc.documentType, useClaudeChunking, r)
        base == buildBaseMetadata(doc, grant)
    IN [k \in 1..Len(drafts) |-> makeChunk(drafts[k], base, counter, k)]

-----------------------------------------------------------------------------
(* Vector store (vector-store.ts).  A stored record is a function from field
   names to values; a field that was not sent is not in its domain *)

FlatStringFields == {"reference_number", "grantee_name", "grantee_country", "state",
                     "program_officer", "rfp", "grant_portfolio_type",
                     "intervention_area_primary", "intervention_area_secondary",
                     "impact_pathway", "labor_market_sector", "project_mechanism",
                     "primary_population_focus", "grant_title", "document_type",
                     "document_date", "source_file", "drive_url", "chunk_uid",
                     "section_type", "section_heading"}

FlatNumberFields == {"grantee_id", "grant_amount", "fiscal_year", "chunk_index", "roi",
                     "people_served", "cost_per_person", "income_change_pct"}

\* A flattening that keeps every field of the metadata
flattenMetadataAll(metadata) == metadata

\* flattenMetadata copies the listed string and number fields and active.
flattenMetadata(metadata) ==
    [k \in (DOMAIN metadata) \cap (FlatStringFields \cup FlatNumberFields \cup {"active"})
       |-> metadata[k]]

MaxTextLength == 35000

\* text.slice(0, n) on a text given by its paragraphs
RECURSIVE Slice(_, _)
Slice(text, n) ==
    IF text = <<>> \/ n <= 0 THEN <<>>
    ELSE IF Head(text).len >= n THEN << [Head(text) EXCEPT !.len = n] >>
    ELSE <<Head(text)>> \o Slice(Tail(text), n - Head(text).len - 2)

UpsertBatchSize == 96
DeleteBatchSize == 100
QueryTopK == 1000

NumBatches(n, size) == (n + size - 1) \div size

\* A slice that ignores the batch bounds
BatchOfWhole(s, b, size) == s

BatchOf(s, b, size) == SubSeq(s, (b - 1) * size + 1, IF b * size < Len(s) THEN b * size ELSE Len(s))

ToRecord(chunk) ==
    [_id |-> chunk.chunkUid, text |-> Slice(chunk.text, MaxTextLength)]
      @@ flattenMetadata(chunk.metadata)

\* index.upsertRecords: a record replaces the stored record of the same _id
UpsertRecords(st, batch) ==
    {r \in st : \A i \in 1..Len(batch) : r._id # batch[i]._id}
      \cup {batch[i] : i \in 1..Len(batch)}

RECURSIVE UpsertBatches(_, _, _, _)
UpsertBatches(st, records, b, upTo) ==
    IF b > upTo THEN st
    ELSE UpsertBatches(UpsertRecords(st, BatchOf(records, b, UpsertBatchSize)),
                       records, b + 1, upTo)

\* upsertChunks(chunks).  failAt = 0: every store call succeeds; failAt = b: the
\* b-th upsertRecords call throws.  chunk.text.slice throws on an undefined text,
\* before the first call.  Gives the store afterwards, whether it threw, and the
\* number of upsertRecords calls issued.
upsertChunks(st, chunks, failAt) ==
    LET n == NumBatches(Len(chunks), UpsertBatchSize)
        records == [i \in 1..Len(chunks) |-> ToRecord(chunks[i])]
        fails == failAt >= 1 /\ failAt <= n
    IN IF Len(chunks) = 0 THEN [store |-> st, threw |-> FALSE, calls |-> 0]
       ELSE IF \E i \in 1..Len(chunks) : chunks[i].text = UndefinedText
            THEN [store |-> st, threw |-> TRUE, calls |-> 0]
       ELSE [store |-> UpsertBatches(st, records, 1, IF fails THEN failAt - 1 ELSE n),
             threw |-> fails,
             calls |-> IF fails THEN failAt ELSE n]

\* deleteChunksBySourceFile(sourceFile): one deleteMany by filter; a failure is
\* swallowed.
deleteChunksBySourceFile(st, sourceFile, ok) ==
    [store |-> IF ok THEN {r \in st : ~("source_file" \in DOMAIN r /\ r.source_file = sourceFile)}
               ELSE st,
     threw |-> FALSE,
     calls |-> 1]

-----------------------------------------------------------------------------
(* Sync State Tracker (drive-sync-state.ts) *)

\* The records a metadata filter {field: {$eq: value}} matches
Matches(st, field, value) == {r \in st : field \in DOMAIN r /\ r[field] = value}

\* index.query returns at most topK of the matching records
QueryResults(matching, topK) ==
    IF Cardinality(matching) <= topK THEN {matching}
    ELSE {S \in SUBSET matching : Cardinality(S) = topK}

\* getLatestSyncGeneration: topK 1, filter sync_generation exists.  pick is the
\* one match the store returns.
getLatestSyncGeneration(st, queryOk, pick) ==
    LET matching == {r \in st : "sync_generation" \in DOMAIN r}
    IN IF ~queryOk THEN 0
       ELSE IF matching = {} THEN 0
       ELSE pick.sync_generation

\* The picks index.query allows getLatestSyncGeneration (a dummy when none)
GenerationPicks(st) ==
    IF {r \in st : "sync_generation" \in DOMAIN r} = {} THEN {[_id |-> 0]}
    ELSE {r \in st : "sync_generation" \in DOMAIN r}

\* getChunksByFileId: the matches of drive_file_id = driveFileId (chosen is the
\* answer of the store, one of QueryResults); [] when the query throws.
getChunksByFileId(st, driveFileId, queryOk, chosen) ==
    IF ~queryOk THEN {} ELSE chosen

FileQueryResults(st, driveFileId) ==
    QueryResults(Matches(st, "drive_file_id", driveFileId), QueryTopK)

\* shouldSkipFile taking a chunk without drive_file_modified for an unchanged file
shouldSkipFileAbsentAsSame(st, driveFileId, driveFileModified, queryOk, chosen, first) ==
    LET chunks == IF ~queryOk THEN {} ELSE chosen
    IN IF chunks = {} THEN [value |-> FALSE, threw |-> FALSE]
       ELSE IF "drive_file_modified" \notin DOMAIN first
            THEN [value |-> TRUE, threw |-> FALSE]
       ELSE [value |-> (first.drive_file_modified = driveFileModified), threw |-> FALSE]

\* shouldSkipFile: first is chunks[0] of the query's answer.
shouldSkipFile(st, driveFileId, driveFileModified, queryOk, chosen, first) ==
    LET chunks == getChunksByFileId(st, driveFileId, queryOk, chosen)
    IN IF chunks = {} THEN [value |-> FALSE, threw |-> FALSE]
       ELSE IF "drive_file_modified" \notin DOMAIN first
            THEN [value |-> FALSE, threw |-> FALSE]
       ELSE [value |-> (first.drive_file_modified = driveFileModified), threw |-> FALSE]

\* The records that can be chunks[0]
FirstOf(chunks) == IF chunks = {} THEN {[_id |-> 0]} ELSE chunks

\* The ids of the chunks, in the order of the query's answer (modelled by _id)
RECURSIVE IdsInOrder(_)
IdsInOrder(chunks) ==
    IF chunks = {} THEN <<>>
    ELSE LET least == CHOOSE c \in chunks : \A d \in chunks : c._id <= d._id
         IN <<least._id>> \o IdsInOrder(chunks \ {least})

\* deleteChunksByFileId: query, then deleteMany in batches of 100 ids.  failAt = b:
\* the b-th deleteMany throws (and the function rethrows).
deleteChunksByFileId(st, driveFileId, queryOk, chosen, failAt) ==
    LET chunks == getChunksByFileId(st, driveFileId, queryOk, chosen)
        chunkIds == IdsInOrder(chunks)
        n == NumBatches(Len(chunkIds), DeleteBatchSize)
        fails == failAt >= 1 /\ failAt <= n
        done == IF fails THEN failAt - 1 ELSE n
        deleted == {chunkIds[i] : i \in 1..(IF done * DeleteBatchSize < Len(chunkIds)
                                            THEN done * DeleteBatchSize ELSE Len(chunkIds))}
    IN IF chunks = {} THEN [store |-> st, threw |-> FALSE, calls |-> 0]
       ELSE [store |-> {r \in st : r._id \notin deleted},
             threw |-> fails,
             calls |-> IF fails THEN failAt ELSE n]

-----------------------------------------------------------------------------
(* Text Extractor (text-extraction.ts).  ok: the download, export or parse of
   the file succeeds *)

ExtractableMimeTypes == {MimeGDoc, MimePdf, MimeDocx, MimeDoc, MimeTxt, MimeCsv}

extractText(file, ok) ==
    IF ~ok THEN [threw |-> TRUE, text |-> <<>>]
    ELSE IF file.mimeType \in ExtractableMimeTypes
         THEN [threw |-> FALSE, text |-> FileText(file.id, file.modifiedTime)]
    ELSE [threw |-> FALSE, text |-> <<>>]

-----------------------------------------------------------------------------
(* Ingestion Orchestrator, runIngestion (ingestion.ts) *)

NoCache == Null

\* A plan says which collaborator calls of one file step fail: the text
\* extraction, the registry fetch, the LLM (its response), the delete by filter,
\* the upsert (the batch that throws, 0 for none), the four queries by file id
\* of a sync step in their order, and the deleteMany by ids.
NoPlan == [extract |-> TRUE, registry |-> TRUE, llm |-> LlmValid, del |-> TRUE,
           upsertFailAt |-> 0, query1 |-> TRUE, query2 |-> TRUE, query3 |-> TRUE,
           query4 |-> TRUE, deleteFailAt |-> 0]

\* The failures a plan holds
PlanFaults(plan) ==
    (IF plan.extract THEN {} ELSE {"extract"})
      \cup (IF plan.registry THEN {} ELSE {"registry"})
      \cup (IF plan.llm = LlmValid THEN {} ELSE {"llm"})
      \cup (IF plan.del THEN {} ELSE {"del"})
      \cup (IF plan.upsertFailAt = 0 THEN {} ELSE {"upsert"})
      \cup (IF plan.query1 THEN {} ELSE {"query1"})
      \cup (IF plan.query2 THEN {} ELSE {"query2"})
      \cup (IF plan.query3 THEN {} ELSE {"query3"})
      \cup (IF plan.query4 THEN {} ELSE {"query4"})
      \cup (IF plan.deleteFailAt = 0 THEN {} ELSE {"delete"})

IngestPlans ==
    {[NoPlan EXCEPT !.extract = e, !.registry = r, !.llm = l, !.del = d, !.upsertFailAt = u] :
        e \in BOOLEAN, r \in BOOLEAN, l \in LlmResponses, d \in BOOLEAN, u \in 0..1}

SyncPlans ==
    {[NoPlan EXCEPT !.extract = e, !.query1 = q[1], !.query2 = q[2], !.query3 = q[3],
                    !.query4 = q[4], !.deleteFailAt = d, !.upsertFailAt = u] :
        e \in BOOLEAN, q \in [1..4 -> BOOLEAN], d \in 0..1, u \in 0..1}

EmptyIngestionResult ==
    [totalFiles |-> 0, processedFiles |-> 0, skippedFiles |-> 0, totalChunks |-> 0,
     errors |-> <<>>, unmatchedGrants |-> <<>>]

\* processFile returning early on a dry run only when no reprocessing is forced
dryRunUnlessForced(options) == options.dryRun /\ ~options.forceReprocess

\* if (options.dryRun) { ...; return; }
dryRunReturns(options) == options.dryRun

\* What one call leaves behind: the store, the cache, the counter, the result,
\* whether it threw, the store write calls it issued, the collaborator calls it
\* made (consulted), the chunks chunkDocument returned (<<>> if not reached),
\* the grant it resolved and whether the registry fetch failed.
Outcome(st, cache, counter, result, threw, nCalls, consulted, segmented, grant, outcome) ==
    [store |-> st, cache |-> cache, counter |-> counter, result |-> result,
     threw |-> threw, calls |-> nCalls, consulted |-> consulted,
     segmented |-> segmented, grant |-> grant, outcome |-> outcome]

\* processFile, lines 145-151: the upsert was issued (or threw)
processUpserted(up, delCalls, chunks, grant, cache, counter, result, consulted) ==
    LET c == consulted \cup (IF up.calls > 0 \/ (Len(chunks) > 0 /\ ~up.threw)
                             THEN {"upsert"} ELSE {})
    IN IF up.threw
       THEN Outcome(up.store, cache, counter, result, TRUE, delCalls + up.calls,
                    c, <<chunks>>, grant, "threw")
       ELSE Outcome(up.store, cache, counter,
                    [result EXCEPT !.processedFiles = @ + 1,
                                   !.totalChunks = @ + Len(chunks)],
                    FALSE, delCalls + up.calls, c, <<chunks>>, grant, "processed")

\* processFile issuing the forced delete only after the upsert has resolved
processChunkedUpsertFirst(chunks, file, options, st, grant, cache, counter, result, plan, consulted) ==
    IF dryRunReturns(options)
    THEN Outcome(st, cache, counter + Len(chunks),
                 [result EXCEPT !.processedFiles = @ + 1, !.totalChunks = @ + Len(chunks)],
                 FALSE, 0, consulted, <<chunks>>, grant, "processed")
    ELSE IF options.forceReprocess
    THEN processUpserted(
           [upsertChunks(st, chunks, plan.upsertFailAt) EXCEPT
              !.store = deleteChunksBySourceFile(@, file.name, plan.del).store],
           1, chunks, grant, cache, counter + Len(chunks), result, consulted \cup {"del"})
    ELSE processUpserted(upsertChunks(st, chunks, plan.upsertFailAt),
                         0, chunks, grant, cache, counter + Len(chunks), result, consulted)

\* processFile, lines 129-147: dry-run return, forced delete, upsert
processChunked(chunks, file, options, st, grant, cache, counter, result, plan, consulted) ==
    IF dryRunReturns(options)
    THEN Outcome(st, cache, counter + Len(chunks),
                 [result EXCEPT !.processedFiles = @ + 1, !.totalChunks = @ + Len(chunks)],
                 FALSE, 0, consulted, <<chunks>>, grant, "processed")
    ELSE IF options.forceReprocess
    THEN processUpserted(
           upsertChunks(deleteChunksBySourceFile(st, file.name, plan.del).store, chunks,
                        plan.upsertFailAt),
           1, chunks, grant, cache, counter + Len(chunks), result, consulted \cup {"del"})
    ELSE processUpserted(upsertChunks(st, chunks, plan.upsertFailAt),
                         0, chunks, grant, cache, counter + Len(chunks), result, consulted)

\* processFile, lines 108-127: unmatched warning, the document, chunkDocument
processMatched(grant, text, parsed, documentType, file, options, st, cache, counter, result, plan, consulted) ==
    processChunked(
      chunkDocument(
        [file |-> file, text |-> text, documentType |-> documentType,
         referenceNumber |-> IF parsed.referenceNumber # Null THEN parsed.referenceNumber
                             ELSE grant.reference_number,
         granteeName |-> IF parsed.granteeName # NoName THEN parsed.granteeName
                         ELSE grant.grantee_name],
        grant, options.useClaudeChunking, plan.llm, counter),
      file, options, st, grant, cache, counter,
      IF grant # NoGrant THEN result
      ELSE [result EXCEPT !.unmatchedGrants =
              Append(@, [file |-> file.name, referenceNumber |-> parsed.referenceNumber])],
      plan,
      consulted \cup (IF UsesClaude(documentType, options.useClaudeChunking)
                      THEN {"llm"} ELSE {}))

\* processFile, lines 93-106: too little text, document type, lookupGrant (which
\* fetches the registry when the cache is empty)
processExtracted(ex, parsed, file, folder, options, st, cache, counter, result, plan) ==
    IF ex.threw
    THEN Outcome(st, cache, counter, result, TRUE, 0, {"extract"}, <<>>, NoGrant, "threw")
    ELSE IF ex.text = <<>> \/ TrimmedLength(ex.text) < 50
    THEN Outcome(st, cache, counter, [result EXCEPT !.skippedFiles = @ + 1],
                 FALSE, 0, {"extract"}, <<>>, NoGrant, "skipped")
    ELSE IF cache = NoCache /\ ~plan.registry
    THEN Outcome(st, cache, counter, result, TRUE, 0, {"extract", "registry"}, <<>>,
                 NoGrant, "registry")
    ELSE processMatched(
           findGrant(IF cache = NoCache THEN SheetGrants ELSE cache,
                     parsed.referenceNumber, parsed.granteeName),
           ex.text, parsed,
           IF parsed.documentType # Null THEN parsed.documentType ELSE folder.documentType,
           file, options, st, IF cache = NoCache THEN SheetGrants ELSE cache, counter,
           result, plan,
           {"extract"} \cup (IF cache = NoCache THEN {"registry"} ELSE {}))

processFile(file, folder, options, st, cache, counter, result, plan) ==
    processExtracted(extractText(file, plan.extract), parseFilename(file.name),
                     file, folder, options, st, cache, counter, result, plan)

\* A catch around processFile that logs the exception without recording it
catchFileErrorUnrecorded(result, file) == result

\* runIngestion's catch around processFile
catchFileError(result, file) ==
    [result EXCEPT !.errors = Append(@, [file |-> file.name, error |-> "error"])]

\* runIngestion's catch around listFilesRecursive
catchListingError(result, folder) ==
    [result EXCEPT !.errors = Append(@, [file |-> folder.label,
                                          error |-> "Folder listing failed"])]

-----------------------------------------------------------------------------
(* Drive sync, syncDriveFiles and processAndStoreFile (drive-sync.ts) *)

EmptySyncResult == [processed |-> 0, new |-> 0, updated |-> 0, skipped |-> 0, errors |-> <<>>]

\* new Map(grants.map((g) => [g.reference_number, g])).get(ref): the last grant
\* of that reference number
grantMapGet(grants, referenceNumber) ==
    LET hits == SelectIdx(grants, LAMBDA i : grants[i].reference_number = referenceNumber)
    IN IF hits = <<>> THEN NoGrant ELSE grants[hits[Len(hits)]]

\* step 4 of processAndStoreFile: the sync and grant fields laid over the chunk's metadata
enrich(chunk, file, grant, syncGen) ==
    [chunkUid |-> chunk.chunkUid,
     text |-> chunk.text,
     metadata |-> [drive_file_id |-> file.id,
                   drive_file_modified |-> file.modifiedTime,
                   ingestion_timestamp |-> "now",
                   sync_generation |-> syncGen,
                   source_file |-> file.name,
                   document_date |-> file.modifiedTime,
                   reference_number |-> grant.reference_number,
                   grantee_name |-> grant.grantee_name] @@ chunk.metadata]

enrichAll(chunks, file, grant, syncGen) ==
    [k \in 1..Len(chunks) |-> enrich(chunks[k], file, grant, syncGen)]

\* processAndStoreFile, step 6: the upsert was issued (or threw)
storeUpserted(up, delCalls, enrichedChunks, counter, consulted) ==
    [store |-> up.store, counter |-> counter, threw |-> up.threw,
     calls |-> delCalls + up.calls,
     consulted |-> consulted \cup (IF up.calls > 0 THEN {"upsert"} ELSE {}),
     chunks |-> enrichedChunks, stored |-> (up.calls > 0 /\ ~up.threw)]

\* processAndStoreFile after step 5: the delete returned or threw
storeDeleted(del, enrichedChunks, counter, plan, consulted) ==
    IF del.threw
    THEN [store |-> del.store, counter |-> counter, threw |-> TRUE, calls |-> del.calls,
          consulted |-> consulted \cup {"delete"}, chunks |-> enrichedChunks,
          stored |-> FALSE]
    ELSE storeUpserted(upsertChunks(del.store, enrichedChunks, plan.upsertFailAt),
                       del.calls, enrichedChunks, counter,
                       consulted \cup (IF del.calls > 0 THEN {"delete"} ELSE {}))

\* processAndStoreFile, step 5: delete the old chunks if the query found any
storeChunked(enrichedChunks, existingChunks, file, st, counter, plan) ==
    storeDeleted(
      IF existingChunks # {}
      THEN deleteChunksByFileId(st, file.id, plan.query4,
                                Matches(st, "drive_file_id", file.id), plan.deleteFailAt)
      ELSE [store |-> st, threw |-> FALSE, calls |-> 0],
      enrichedChunks, counter + Len(enrichedChunks), plan,
      {"extract", "query3"} \cup (IF existingChunks # {} THEN {"query4"} ELSE {}))

\* processAndStoreFile, steps 2 to 4: document type, chunkDocument, enrichment
storeExtracted(ex, parsed, file, grant, syncGen, defaultDocumentType, st, counter, plan) ==
    IF ex.threw
    THEN [store |-> st, counter |-> counter, threw |-> TRUE, calls |-> 0,
          consulted |-> {"extract"}, chunks |-> <<>>, stored |-> FALSE]
    ELSE storeChunked(
           enrichAll(
             chunkDocument(
               [file |-> file, text |-> ex.text,
                documentType |-> IF parsed.documentType # Null THEN parsed.documentType
                                 ELSE defaultDocumentType,
                referenceNumber |-> parsed.referenceNumber,
                granteeName |-> grant.grantee_name],
               grant, FALSE, LlmValid, counter),
             file, grant, syncGen),
           getChunksByFileId(st, file.id, plan.query3, Matches(st, "drive_file_id", file.id)),
           file, st, counter, plan)

processAndStoreFile(file, grant, syncGen, defaultDocumentType, st, counter, plan) ==
    storeExtracted(extractText(file, plan.extract), parseFilename(file.name),
                   file, grant, syncGen, defaultDocumentType, st, counter, plan)

\* syncDriveFiles, lines 123-148: the counters or the error after processAndStoreFile
syncProcessed(p, isUpdate, file, result) ==
    [store |-> p.store, counter |-> p.counter, calls |-> p.calls,
     consulted |-> {"query1", "query2"} \cup p.consulted,
     chunks |-> p.chunks, stored |-> p.stored,
     outcome |-> IF p.threw THEN "threw" ELSE "processed",
     result |-> IF p.threw
                THEN [result EXCEPT !.errors =
                        Append(@, [file |-> file.name, error |-> "error"])]
                ELSE [result EXCEPT !.processed = @ + 1,
                                    !.updated = IF isUpdate THEN @ + 1 ELSE @,
                                    !.new = IF isUpdate THEN @ ELSE @ + 1]]

\* A file the loop passes over: nothing stored
syncPassed(outcome, result, consulted, st, counter) ==
    [store |-> st, counter |-> counter, result |-> result, calls |-> 0,
     consulted |-> consulted, outcome |-> outcome, chunks |-> <<>>, stored |-> FALSE]

\* syncDriveFiles, lines 93-120: reference number, grant, skip check, update check
syncParsed(parsed, grant, file, folder, nextGen, st, counter, result, plan, first) ==
    IF parsed.referenceNumber = Null
    THEN syncPassed("no_reference",
                    [result EXCEPT !.errors =
                       Append(@, [file |-> file.name, error |-> "No reference number"])],
                    {}, st, counter)
    ELSE IF grant = NoGrant
    THEN syncPassed("no_grant",
                    [result EXCEPT !.errors =
                       Append(@, [file |-> file.name, error |-> "Grant not found"])],
                    {}, st, counter)
    ELSE IF shouldSkipFile(st, file.id, file.modifiedTime, plan.query1,
                           Matches(st, "drive_file_id", file.id), first).value
    THEN syncPassed("skipped", [result EXCEPT !.skipped = @ + 1], {"query1"}, st, counter)
    ELSE syncProcessed(
           processAndStoreFile(file, grant, nextGen, folder.documentType, st, counter, plan),
           getChunksByFileId(st, file.id, plan.query2,
                             Matches(st, "drive_file_id", file.id)) # {},
           file, result)

\* The body of syncDriveFiles' loop over the files of a folder
syncFile(file, folder, grants, nextGen, st, counter, result, plan, first) ==
    IF ~isSupportedFile(file.mimeType) THEN syncPassed("unsupported", result, {}, st, counter)
    ELSE syncParsed(parseFilename(file.name),
                    grantMapGet(grants, parseFilename(file.name).referenceNumber),
                    file, folder, nextGen, st, counter, result, plan, first)

-----------------------------------------------------------------------------
(* The runs.  pc is the position of the one request being served: "idle",
   "folder" (about to list run.folders[run.fpos]), "file" (about to process
   run.files[run.i]), "done" (returned normally), "failed" (threw) *)

NoFolderIds == [given |-> FALSE, ids |-> {}]

\* IngestionOptions; folderIds is optional
Options(useClaudeChunking, dryRun, forceReprocess, folderIds) ==
    [useClaudeChunking |-> useClaudeChunking, dryRun |-> dryRun,
     forceReprocess |-> forceReprocess, folderIds |-> folderIds]

\* The request bodies tried
OptionsSet ==
    {Options(FALSE, FALSE, FALSE, NoFolderIds),
     Options(TRUE, FALSE, TRUE, [given |-> TRUE, ids |-> {"1s8Cy", "19dfF"}]),
     Options(TRUE, TRUE, TRUE, NoFolderIds),
     Options(FALSE, TRUE, FALSE, [given |-> TRUE, ids |-> {"1s8Cy", "19dfF"}])}

NoOptions == [useClaudeChunking |-> FALSE, dryRun |-> FALSE, forceReprocess |-> FALSE,
              folderIds |-> NoFolderIds]

\* options.folderIds ? DRIVE_FOLDERS.filter(...) : DRIVE_FOLDERS
selectFolders(options) ==
    IF options.folderIds.given
    THEN Filter(DRIVE_FOLDERS, LAMBDA i : DRIVE_FOLDERS[i].folderId \in options.folderIds.ids)
    ELSE DRIVE_FOLDERS

NoRun == [entry |-> "none", options |-> NoOptions, folders |-> <<>>, fpos |-> 0,
          files |-> <<>>, i |-> 0, result |-> EmptyIngestionResult, nextGen |-> 0,
          grants |-> <<>>]

NoHist == [listed |-> <<>>, visited |-> <<>>, thrown |-> <<>>, segmented |-> <<>>,
           processed |-> <<>>, registryFailed |-> FALSE, slept |-> FALSE]

\* runIngestion's loop, after the i-th of n files: await sleep(500) is reached
sleeps(options, i, n) == ~options.dryRun /\ i < n

NoLast == [op |-> "none"]

NoRet == [op |-> "none"]

Init ==
    /\ store = {}
    /\ drive = [f \in FileIds |-> 1]
    /\ grantCache = NoCache
    /\ chunkCounter = 0
    /\ run = NoRun
    /\ pc = "idle"
    /\ ret = NoRet
    /\ calls = 0
    /\ hist = NoHist
    /\ last = NoLast
    /\ synced = [f \in FileIds |-> {}]
    /\ origin = <<>>
    /\ stamped = {}
    /\ faults = 0
    /\ runs = 0
    /\ procs = <<>>
    /\ promises = <<>>
    /\ inflightGenerations = <<>>

\* The position after the current folder
afterFolder(r) ==
    IF r.fpos < Len(r.folders) THEN [r EXCEPT !.fpos = @ + 1, !.files = <<>>, !.i = 0]
    ELSE [r EXCEPT !.fpos = Len(r.folders) + 1, !.files = <<>>, !.i = 0]

\* The position after the current file
afterFile(r) ==
    IF r.i < Len(r.files) THEN [r EXCEPT !.i = @ + 1] ELSE afterFolder(r)

pcOf(r) ==
    IF r.fpos > Len(r.folders) THEN "done"
    ELSE IF r.i >= 1 /\ r.i <= Len(r.files) THEN "file"
    ELSE "folder"

\* The Drive owner edits a file between requests
TouchFile(f) ==
    /\ pc = "idle"
    /\ runs < MaxRuns
    /\ drive[f] < MaxVersion
    /\ Cardinality({g \in FileIds : drive[g] > 1}) < MaxEdited
    /\ drive' = [drive EXCEPT ![f] = @ + 1]
    /\ UNCHANGED <<store, grantCache, chunkCounter, run, pc, ret, calls, hist, last,
                   synced, origin, stamped, faults, runs,
                   procs, promises, inflightGenerations>>

\* POST /api/ingest calls runIngestion(options)
StartIngestion(options) ==
    /\ pc = "idle"
    /\ runs < MaxRuns
    /\ LET r == [NoRun EXCEPT !.entry = "ingest", !.options = options,
                              !.folders = selectFolders(options), !.fpos = 1]
       IN /\ run' = r
          /\ pc' = pcOf(r)
    /\ runs' = runs + 1
    /\ hist' = NoHist
    /\ last' = NoLast
    /\ UNCHANGED <<store, drive, grantCache, chunkCounter, ret, calls, synced, origin,
                   stamped, faults,
                   procs, promises, inflightGenerations>>

\* runIngestion lists the next folder
IngestListFolder(ok) ==
    /\ pc = "folder"
    /\ run.entry = "ingest"
    /\ ok \/ faults < MaxFaults
    /\ LET folder == run.folders[run.fpos]
           files == FolderListing(folder.folderId)
           listed == [run EXCEPT !.files = files, !.i = 1,
                                 !.result.totalFiles = @ + Len(files)]
           r == IF ~ok
                THEN afterFolder([run EXCEPT !.result = catchListingError(@, folder)])
                ELSE IF files = <<>> THEN afterFolder(listed)
                ELSE listed
       IN /\ run' = r
          /\ pc' = pcOf(r)
          /\ hist' = [hist EXCEPT !.listed = Append(@, [folder |-> folder.folderId, ok |-> ok]),
                                  !.thrown = IF ok THEN @ ELSE Append(@, folder.label)]
    /\ faults' = IF ok THEN faults ELSE faults + 1
    /\ last' = NoLast
    /\ UNCHANGED <<store, drive, grantCache, chunkCounter, ret, calls, synced, origin,
                   stamped, runs,
                   procs, promises, inflightGenerations>>

\* runIngestion processes the next file of the folder: processFile in its try/catch
IngestFile(plan) ==
    /\ pc = "file"
    /\ run.entry = "ingest"
    /\ faults + Cardinality(PlanFaults(plan)) <= MaxFaults
    /\ \E folder \in {run.folders[run.fpos]}, file \in {FileInfo(run.files[run.i])} :
       \E o \in {processFile(file, folder, run.options, store, grantCache, chunkCounter,
                             run.result, plan)} :
       \E r \in {afterFile([run EXCEPT !.result = IF o.threw THEN catchFileError(o.result, file)
                                                   ELSE o.result])} :
          /\ PlanFaults(plan) \subseteq o.consulted
          /\ store' = o.store
          /\ grantCache' = o.cache
          /\ chunkCounter' = o.counter
          /\ calls' = calls + o.calls
          /\ run' = r
          /\ pc' = pcOf(r)
          /\ hist' = [hist EXCEPT
                 !.visited = Append(@, file.id),
                 !.thrown = IF o.threw THEN Append(@, file.name) ELSE @,
                 !.segmented = IF o.segmented = <<>> THEN @
                               ELSE Append(@, Len(o.segmented[1])),
                 !.processed = IF o.outcome = "processed"
                               THEN Append(@, Len(o.segmented[1])) ELSE @,
                 !.registryFailed = @ \/ (o.outcome = "registry"),
                 !.slept = sleeps(run.options, run.i, Len(run.files))]
          /\ last' = [op |-> "ingest", file |-> file, documentType |-> folder.documentType,
                      llm |-> IF "llm" \in o.consulted THEN <<plan.llm>> ELSE <<>>,
                      segmented |-> IF o.segmented = <<>> THEN <<>>
                                    ELSE << [k \in 1..Len(o.segmented[1]) |->
                                               [text |-> o.segmented[1][k].text,
                                                section_type |->
                                                  o.segmented[1][k].metadata.section_type]] >>,
                      grant |-> o.grant, outcome |-> o.outcome]
          /\ origin' = origin \o [k \in 1..(o.counter - chunkCounter) |->
                                   [file |-> file.id, by |-> "ingest"]]
    /\ faults' = faults + Cardinality(PlanFaults(plan))
    /\ UNCHANGED <<drive, ret, synced, stamped, runs,
                   procs, promises, inflightGenerations>>

\* The cron route calls syncDriveFiles(): cache reset, registry load, generation
StartSync(registryOk, queryOk, pick) ==
    /\ pc = "idle"
    /\ runs < MaxRuns
    /\ faults + (IF registryOk THEN 0 ELSE 1) + (IF registryOk /\ ~queryOk THEN 1 ELSE 0)
         <= MaxFaults
    /\ registryOk \/ queryOk
    /\ LET r0 == [NoRun EXCEPT !.entry = "sync", !.result = EmptySyncResult,
                               !.folders = DRIVE_FOLDERS]
           r == IF ~registryOk
                THEN [r0 EXCEPT !.result.errors = Append(@, [file |-> "", error |-> "Sync failed"])]
                ELSE [r0 EXCEPT !.fpos = 1, !.grants = SheetGrants,
                                !.nextGen = getLatestSyncGeneration(store, queryOk, pick) + 1]
       IN /\ run' = r
          /\ pc' = IF registryOk THEN pcOf(r) ELSE "failed"
    /\ grantCache' = NoCache
    /\ hist' = [NoHist EXCEPT !.registryFailed = ~registryOk]
    /\ last' = NoLast
    /\ runs' = runs + 1
    /\ faults' = faults + (IF registryOk /\ queryOk THEN 0 ELSE 1)
    /\ UNCHANGED <<store, drive, chunkCounter, ret, calls, synced, origin, stamped,
                   procs, promises, inflightGenerations>>

\* syncDriveFiles lists the next folder
SyncListFolder(ok) ==
    /\ pc = "folder"
    /\ run.entry = "sync"
    /\ ok \/ faults < MaxFaults
    /\ LET folder == run.folders[run.fpos]
           files == FolderListing(folder.folderId)
           listed == [run EXCEPT !.files = files, !.i = 1]
           r == IF ~ok
                THEN afterFolder([run EXCEPT !.result.errors =
                        Append(@, [file |-> folder.label, error |-> "Folder"])])
                ELSE IF files = <<>> THEN afterFolder(listed)
                ELSE listed
       IN /\ run' = r
          /\ pc' = pcOf(r)
          /\ hist' = [hist EXCEPT !.listed = Append(@, [folder |-> folder.folderId, ok |-> ok]),
                                  !.thrown = IF ok THEN @ ELSE Append(@, folder.label)]
    /\ faults' = IF ok THEN faults ELSE faults + 1
    /\ last' = NoLast
    /\ UNCHANGED <<store, drive, grantCache, chunkCounter, ret, calls, synced, origin,
                   stamped, runs,
                   procs, promises, inflightGenerations>>

\* syncDriveFiles handles the next file of the folder
SyncFile(plan, first) ==
    /\ pc = "file"
    /\ run.entry = "sync"
    /\ faults + Cardinality(PlanFaults(plan)) <= MaxFaults
    /\ \E folder \in {run.folders[run.fpos]}, file \in {FileInfo(run.files[run.i])} :
       \E o \in {syncFile(file, folder, run.grants, run.nextGen, store, chunkCounter,
                          run.result, plan, first)} :
       \E r \in {afterFile([run EXCEPT !.result = o.result])} :
          /\ PlanFaults(plan) \subseteq o.consulted
          /\ store' = o.store
          /\ chunkCounter' = o.counter
          /\ calls' = calls + o.calls
          /\ run' = r
          /\ pc' = pcOf(r)
          /\ hist' = [hist EXCEPT
                 !.visited = Append(@, file.id),
                 !.thrown = IF o.outcome = "threw" THEN Append(@, file.name) ELSE @,
                 !.slept = FALSE]
          /\ last' = [op |-> "sync", file |-> file, documentType |-> folder.documentType,
                      llm |-> <<>>, segmented |-> <<>>,
                      grant |-> grantMapGet(run.grants, parseFilename(file.name).referenceNumber),
                      outcome |-> o.outcome]
          /\ origin' = origin \o [k \in 1..(o.counter - chunkCounter) |->
                                   [file |-> file.id, by |-> "sync"]]
          /\ synced' = IF o.outcome = "processed"
                       THEN [synced EXCEPT ![file.id] = @ \cup {file.modifiedTime}]
                       ELSE synced
          /\ stamped' = IF o.stored THEN stamped \cup {<<runs, run.nextGen>>} ELSE stamped
    /\ faults' = faults + Cardinality(PlanFaults(plan))
    /\ UNCHANGED <<drive, grantCache, ret, runs,
                   procs, promises, inflightGenerations>>

\* The route answers; the next request can be served
Return ==
    /\ pc \in {"done", "failed"}
    /\ pc' = "idle"
    /\ run' = NoRun
    /\ hist' = NoHist
    /\ last' = NoLast
    /\ UNCHANGED <<store, drive, grantCache, chunkCounter, ret, calls, synced, origin,
                   stamped, faults, runs,
                   procs, promises, inflightGenerations>>

Next ==
    \/ \E f \in FileIds : TouchFile(f)
    \/ \E options \in OptionsSet : StartIngestion(options)
    \/ \E ok \in BOOLEAN : IngestListFolder(ok)
    \/ \E plan \in IngestPlans : IngestFile(plan)
    \/ \E registryOk \in BOOLEAN, queryOk \in BOOLEAN : \E pick \in GenerationPicks(store) :
          StartSync(registryOk, queryOk, pick)
    \/ \E ok \in BOOLEAN : SyncListFolder(ok)
    \/ \E plan \in SyncPlans :
          \E first \in FirstOf(Matches(store, "drive_file_id", run.files[run.i])) :
             SyncFile(plan, first)
    \/ Return

Spec == Init /\ [][Next]_vars

-----------------------------------------------------------------------------
(* The sync state tracker on an arbitrary index: the functions of
   drive-sync-state.ts called on any store of at most MaxStored records, each
   with or without the sync fields *)

SyncGenerations == {1, 2}

\* A stored record; driveFileId = Null, modified = 0, generation = 0: field absent
TrackerRecord(id, driveFileId, modified, generation) ==
    LET full == [_id |-> id, drive_file_id |-> driveFileId,
                 drive_file_modified |-> modified, sync_generation |-> generation]
    IN [k \in {"_id"} \cup (IF driveFileId = Null THEN {} ELSE {"drive_file_id"})
                      \cup (IF modified = 0 THEN {} ELSE {"drive_file_modified"})
                      \cup (IF generation = 0 THEN {} ELSE {"sync_generation"}) |-> full[k]]

TrackerFileIds == {"f1", "f2"}

\* What the index can hold under one id: nothing, a record without sync fields,
\* or a record of a file with or without timestamp and generation
TrackerSlots ==
    {[used |-> FALSE, f |-> Null, m |-> 0, g |-> 0], [used |-> TRUE, f |-> Null, m |-> 0, g |-> 0]}
      \cup [used : {TRUE}, f : TrackerFileIds, m : 0..MaxVersion, g : {0} \cup SyncGenerations]

TrackerStores ==
    {{TrackerRecord(id, slots[id].f, slots[id].m, slots[id].g) :
         id \in {i \in 1..MaxStored : slots[i].used}} :
       slots \in [1..MaxStored -> TrackerSlots]}

InitTracker ==
    /\ store \in TrackerStores
    /\ drive = [f \in FileIds |-> 1]
    /\ grantCache = NoCache
    /\ chunkCounter = 0
    /\ run = NoRun
    /\ pc = "tracker"
    /\ ret = NoRet
    /\ calls = 0
    /\ hist = NoHist
    /\ last = NoLast
    /\ synced = [f \in FileIds |-> {}]
    /\ origin = <<>>
    /\ stamped = {}
    /\ faults = 0
    /\ runs = 0
    /\ procs = <<>>
    /\ promises = <<>>
    /\ inflightGenerations = <<>>

CallShouldSkipFile(driveFileId, driveFileModified, queryOk, chosen, first) ==
    /\ pc = "tracker"
    /\ ret = NoRet
    /\ LET r == shouldSkipFile(store, driveFileId, driveFileModified, queryOk, chosen, first)
       IN ret' = [op |-> "shouldSkipFile", driveFileId |-> driveFileId,
                  driveFileModified |-> driveFileModified, queryOk |-> queryOk,
                  value |-> r.value, threw |-> r.threw]
    /\ UNCHANGED <<store, drive, grantCache, chunkCounter, run, pc, calls, hist, last,
                   synced, origin, stamped, faults, runs,
                   procs, promises, inflightGenerations>>

CallDeleteChunksByFileId(driveFileId, queryOk, chosen, failAt) ==
    /\ pc = "tracker"
    /\ ret = NoRet
    /\ LET r == deleteChunksByFileId(store, driveFileId, queryOk, chosen, failAt)
       IN /\ store' = r.store
          /\ ret' = [op |-> "deleteChunksByFileId", driveFileId |-> driveFileId,
                     queryOk |-> queryOk, threw |-> r.threw]
    /\ UNCHANGED <<drive, grantCache, chunkCounter, run, pc, calls, hist, last,
                   synced, origin, stamped, faults, runs,
                   procs, promises, inflightGenerations>>

CallGetLatestSyncGeneration(queryOk, pick) ==
    /\ pc = "tracker"
    /\ ret = NoRet
    /\ ret' = [op |-> "getLatestSyncGeneration", queryOk |-> queryOk,
               value |-> getLatestSyncGeneration(store, queryOk, pick)]
    /\ UNCHANGED <<store, drive, grantCache, chunkCounter, run, pc, calls, hist, last,
                   synced, origin, stamped, faults, runs,
                   procs, promises, inflightGenerations>>

\* The caller takes the result
TakeResult ==
    /\ pc = "tracker"
    /\ ret # NoRet
    /\ ret' = NoRet
    /\ UNCHANGED <<store, drive, grantCache, chunkCounter, run, pc, calls, hist, last,
                   synced, origin, stamped, faults, runs,
                   procs, promises, inflightGenerations>>

NextTracker ==
    \/ \E driveFileId \in TrackerFileIds, driveFileModified \in 1..MaxVersion,
          queryOk \in BOOLEAN :
          \E chosen \in FileQueryResults(store, driveFileId) : \E first \in FirstOf(chosen) :
             CallShouldSkipFile(driveFileId, driveFileModified, queryOk, chosen, first)
    \/ \E driveFileId \in TrackerFileIds, queryOk \in BOOLEAN, failAt \in 0..1 :
          \E chosen \in FileQueryResults(store, driveFileId) :
             CallDeleteChunksByFileId(driveFileId, queryOk, chosen, failAt)
    \/ \E queryOk \in BOOLEAN : \E pick \in GenerationPicks(store) :
          CallGetLatestSyncGeneration(queryOk, pick)
    \/ TakeResult

SpecTracker == InitTracker /\ [][NextTracker]_vars

-----------------------------------------------------------------------------
(* One file at a time: processFile (ingestion.ts) and the loop body of
   syncDriveFiles (drive-sync.ts) called on a file of any kind, among them
   "2025001_Solar Sister_Survey.txt" holding 30 characters and the presentation
   "2024010B_Acme Org_Deck.pptx", over the store the earlier calls left *)

\* The files handed to the calls
CallFiles ==
    {[id |-> "f1", name |-> "n1", mimeType |-> MimePdf, modifiedTime |-> 1],
     [id |-> "f2", name |-> "n2", mimeType |-> MimeDocx, modifiedTime |-> 1],
     [id |-> "f3", name |-> "n3", mimeType |-> MimePdf, modifiedTime |-> 2],
     [id |-> "f4", name |-> "n4", mimeType |-> MimeGSheet, modifiedTime |-> 1],
     [id |-> "f5", name |-> "n5", mimeType |-> MimeTxt, modifiedTime |-> 1],
     [id |-> "f6", name |-> "n6", mimeType |-> MimePptx, modifiedTime |-> 1],
     [id |-> "f7", name |-> "n1", mimeType |-> MimePdf, modifiedTime |-> 1]}

InitFile ==
    /\ store = {}
    /\ drive = [f \in FileIds |-> 1]
    /\ grantCache = NoCache
    /\ chunkCounter = 0
    /\ run = NoRun
    /\ pc = "call"
    /\ ret = NoRet
    /\ calls = 0
    /\ hist = NoHist
    /\ last = NoLast
    /\ synced = [f \in FileIds |-> {}]
    /\ origin = <<>>
    /\ stamped = {}
    /\ faults = 0
    /\ runs = 0
    /\ procs = <<>>
    /\ promises = <<>>
    /\ inflightGenerations = <<>>

\* What a call left behind, for its caller
FileReturn(op, file, live, extracted, o) ==
    [op |-> op, file |-> file, live |-> live, extracted |-> extracted,
     outcome |-> o.outcome, chunks |-> o.counter - chunkCounter, calls |-> o.calls,
     wrote |-> o.store # store, result |-> o.result]

\* runIngestion's loop body on one file: processFile in its try/catch
CallProcessFile(file, folder, options, plan) ==
    /\ pc = "call"
    /\ ret = NoRet
    /\ runs < MaxRuns
    /\ faults + Cardinality(PlanFaults(plan)) <= MaxFaults
    /\ \E o \in {processFile(file, folder, options, store, grantCache, chunkCounter,
                              EmptyIngestionResult, plan)} :
          /\ PlanFaults(plan) \subseteq o.consulted
          /\ store' = o.store
          /\ grantCache' = o.cache
          /\ chunkCounter' = o.counter
          /\ calls' = calls + o.calls
          /\ origin' = origin \o [k \in 1..(o.counter - chunkCounter) |->
                                   [file |-> file.id, by |-> "call"]]
          /\ ret' = FileReturn("processFile", file, ~options.dryRun,
                               extractText(file, plan.extract),
                               [o EXCEPT !.result = IF o.threw
                                                    THEN catchFileError(o.result, file)
                                                    ELSE o.result])
    /\ faults' = faults + Cardinality(PlanFaults(plan))
    /\ runs' = runs + 1
    /\ UNCHANGED <<drive, run, pc, hist, last, synced, stamped,
                   procs, promises, inflightGenerations>>

\* syncDriveFiles' loop body on one file, with the registry loaded
CallSyncFile(file, folder, plan, first) ==
    /\ pc = "call"
    /\ ret = NoRet
    /\ runs < MaxRuns
    /\ faults + Cardinality(PlanFaults(plan)) <= MaxFaults
    /\ \E o \in {syncFile(file, folder, SheetGrants, 1, store, chunkCounter,
                           EmptySyncResult, plan, first)} :
          /\ PlanFaults(plan) \subseteq o.consulted
          /\ store' = o.store
          /\ chunkCounter' = o.counter
          /\ calls' = calls + o.calls
          /\ origin' = origin \o [k \in 1..(o.counter - chunkCounter) |->
                                   [file |-> file.id, by |-> "call"]]
          /\ ret' = FileReturn("syncFile", file, TRUE,
                               extractText(file, plan.extract), o)
    /\ faults' = faults + Cardinality(PlanFaults(plan))
    /\ runs' = runs + 1
    /\ UNCHANGED <<drive, grantCache, run, pc, hist, last, synced, stamped,
                   procs, promises, inflightGenerations>>

\* The caller goes on to its next file
NextCall ==
    /\ pc = "call"
    /\ ret # NoRet
    /\ ret' = NoRet
    /\ UNCHANGED <<store, drive, grantCache, chunkCounter, run, pc, calls, hist, last,
                   synced, origin, stamped, faults, runs,
                   procs, promises, inflightGenerations>>

NextFile ==
    \/ \E file \in CallFiles, i \in 1..Len(DRIVE_FOLDERS), options \in OptionsSet,
          plan \in IngestPlans :
          CallProcessFile(file, DRIVE_FOLDERS[i], options, plan)
    \/ \E file \in CallFiles, i \in 1..Len(DRIVE_FOLDERS), plan \in SyncPlans :
          \E first \in FirstOf(Matches(store, "drive_file_id", file.id)) :
             CallSyncFile(file, DRIVE_FOLDERS[i], plan, first)
    \/ NextCall

SpecFile == InitFile /\ [][NextFile]_vars

-----------------------------------------------------------------------------
(* The segmentation strategies (chunking.ts) called on any text of at most
   MaxParas paragraphs *)

\* The paragraphs a text is made of: plain paragraphs of several lengths around
\* the budgets, and lines that read as headings or as questions
SegmentParas ==
    {Body(l) : l \in {10, 20, 30, 700, 750, 800, 1600}}
      \cup {Para("caps", 6, {"budget"}), Para("num", 40, {"how many"}),
            Para("hash", 12, {"lesson"}), Para("q", 30, {"challeng"}),
            Para("caps", 120, {"timeline"}), Blank(3)}

SegmentTexts == UNION {[1..n -> SegmentParas] : n \in 0..MaxParas}

SegmentBudgets == {800, TARGET_SIZE, 2000}

InitSegment ==
    /\ store = {}
    /\ drive = [f \in FileIds |-> 1]
    /\ grantCache = NoCache
    /\ chunkCounter = 0
    /\ run = NoRun
    /\ pc = "segment"
    /\ ret = NoRet
    /\ calls = 0
    /\ hist = NoHist
    /\ last = NoLast
    /\ synced = [f \in FileIds |-> {}]
    /\ origin = <<>>
    /\ stamped = {}
    /\ faults = 0
    /\ runs = 0
    /\ procs = <<>>
    /\ promises = <<>>
    /\ inflightGenerations = <<>>

CallChunkBySize(text, maxChars) ==
    /\ pc = "segment"
    /\ ret = NoRet
    /\ ret' = [op |-> "chunkBySize", text |-> text, budget |-> maxChars,
               value |-> chunkBySize(text, maxChars)]
    /\ UNCHANGED <<store, drive, grantCache, chunkCounter, run, pc, calls, hist, last,
                   synced, origin, stamped, faults, runs,
                   procs, promises, inflightGenerations>>

CallChunkTranscriptByParagraph(text) ==
    /\ pc = "segment"
    /\ ret = NoRet
    /\ ret' = [op |-> "chunkTranscriptByParagraph", text |-> text, budget |-> TARGET_SIZE,
               value |-> chunkTranscriptByParagraph(text)]
    /\ UNCHANGED <<store, drive, grantCache, chunkCounter, run, pc, calls, hist, last,
                   synced, origin, stamped, faults, runs,
                   procs, promises, inflightGenerations>>

CallChunkGrantDescription(text) ==
    /\ pc = "segment"
    /\ ret = NoRet
    /\ ret' = [op |-> "chunkGrantDescription", text |-> text, budget |-> 2000,
               value |-> chunkGrantDescription(text)]
    /\ UNCHANGED <<store, drive, grantCache, chunkCounter, run, pc, calls, hist, last,
                   synced, origin, stamped, faults, runs,
                   procs, promises, inflightGenerations>>

\* What the LLM can answer to a segmentation request
SegmentResponses == LlmResponses \cup {LlmInheritedLabel}

\* chunkDocument on a document of the given type; the response matters only to
\* a transcript segmented with the LLM, and the text does not matter when the
\* response is taken
CallChunkDocument(text, documentType, useClaudeChunking, r) ==
    /\ pc = "segment"
    /\ ret = NoRet
    /\ UsesClaude(documentType, useClaudeChunking) \/ r = LlmValid
    /\ (UsesClaude(documentType, useClaudeChunking) /\ r.kind = "text" /\ ~ClaudeParseThrows(r))
          => text = <<>>
    /\ ret' = [op |-> "chunkDocument", text |-> text, documentType |-> documentType,
               useClaudeChunking |-> useClaudeChunking, llm |-> r,
               value |-> chunkDocument(
                           [file |-> FileInfo("f1"), text |-> text,
                            documentType |-> documentType,
                            referenceNumber |-> "2024010B", granteeName |-> AcmeOrg],
                           SheetGrants[1], useClaudeChunking, r, chunkCounter)]
    /\ UNCHANGED <<store, drive, grantCache, chunkCounter, run, pc, calls, hist, last,
                   synced, origin, stamped, faults, runs,
                   procs, promises, inflightGenerations>>

NextSegment ==
    \/ /\ ret = NoRet
       /\ \E text \in SegmentTexts, maxChars \in SegmentBudgets :
             CallChunkBySize(text, maxChars)
    \/ /\ ret = NoRet
       /\ \E text \in SegmentTexts : CallChunkTranscriptByParagraph(text)
    \/ /\ ret = NoRet
       /\ \E text \in SegmentTexts : CallChunkGrantDescription(text)
    \/ /\ ret = NoRet
       /\ \E text \in SegmentTexts, documentType \in DocumentType,
             useClaudeChunking \in BOOLEAN, r \in SegmentResponses :
             CallChunkDocument(text, documentType, useClaudeChunking, r)

SpecSegment == InitSegment /\ [][NextSegment]_vars

-----------------------------------------------------------------------------
(* lookupGrant (grant-lookup.ts) called with any reference number and name on a
   loaded cache of at most MaxRegistry records *)

ToolkitAfrica == <<"T", "o", "o", "l", "k", "i", "t", " ", "A", "f", "r", "i", "c", "a">>
SolarAfricaTrust == <<"S", "o", "l", "a", "r", " ", "A", "f", "r", "i", "c", "a", " ", "T", "r", "u", "s", "t">>

\* The rows the sheet can hold; two rows share a reference number
LookupRows ==
    {[reference_number |-> "2024010B", grantee_name |-> AcmeOrg],
     [reference_number |-> "2025001", grantee_name |-> SolarSister],
     [reference_number |-> "2025002", grantee_name |-> ToolkitAfrica],
     [reference_number |-> "2025001", grantee_name |-> SolarAfricaTrust]}

LookupRegistries == UNION {[1..n -> LookupRows] : n \in 0..MaxRegistry}

\* The reference numbers a file name can hold, and null
LookupReferences == {Null, "2025001", "2026044"}

\* The grantee names a file name can give, and null:
\*   " Solar Sister ", "solar sisterhood program", "xyz", "ab", "Sister Solar",
\*   "solar africa", "solar toolkit africa", "a toolkit", "Acme"
LookupNames ==
    {NoName,
     <<" ", "S", "o", "l", "a", "r", " ", "S", "i", "s", "t", "e", "r", " ">>,
     <<"s", "o", "l", "a", "r", " ", "s", "i", "s", "t", "e", "r", "h", "o", "o", "d", " ", "p", "r", "o", "g", "r", "a", "m">>,
     <<"x", "y", "z">>,
     <<"a", "b">>,
     <<"S", "i", "s", "t", "e", "r", " ", "S", "o", "l", "a", "r">>,
     <<"s", "o", "l", "a", "r", " ", "a", "f", "r", "i", "c", "a">>,
     <<"s", "o", "l", "a", "r", " ", "t", "o", "o", "l", "k", "i", "t", " ", "a", "f", "r", "i", "c", "a">>,
     <<"a", " ", "t", "o", "o", "l", "k", "i", "t">>,
     <<"A", "c", "m", "e">>}

InitLookup ==
    /\ store = {}
    /\ drive = [f \in FileIds |-> 1]
    /\ grantCache \in LookupRegistries
    /\ chunkCounter = 0
    /\ run = NoRun
    /\ pc = "lookup"
    /\ ret = NoRet
    /\ calls = 0
    /\ hist = NoHist
    /\ last = NoLast
    /\ synced = [f \in FileIds |-> {}]
    /\ origin = <<>>
    /\ stamped = {}
    /\ faults = 0
    /\ runs = 0
    /\ procs = <<>>
    /\ promises = <<>>
    /\ inflightGenerations = <<>>

CallLookupGrant(referenceNumber, granteeName) ==
    /\ pc = "lookup"
    /\ ret = NoRet
    /\ ret' = [op |-> "lookupGrant", referenceNumber |-> referenceNumber,
               granteeName |-> granteeName,
               value |-> findGrant(grantCache, referenceNumber, granteeName)]
    /\ UNCHANGED <<store, drive, grantCache, chunkCounter, run, pc, calls, hist, last,
                   synced, origin, stamped, faults, runs,
                   procs, promises, inflightGenerations>>

\* The caller takes the record
TakeGrant ==
    /\ pc = "lookup"
    /\ ret # NoRet
    /\ ret' = NoRet
    /\ UNCHANGED <<store, drive, grantCache, chunkCounter, run, pc, calls, hist, last,
                   synced, origin, stamped, faults, runs,
                   procs, promises, inflightGenerations>>

NextLookup ==
    \/ \E referenceNumber \in LookupReferences, granteeName \in LookupNames :
          CallLookupGrant(referenceNumber, granteeName)
    \/ TakeGrant

SpecLookup == InitLookup /\ [][NextLookup]_vars

-----------------------------------------------------------------------------
(* parseFilename (filename-parser.ts) called on any file name made of at most
   MaxWords of the words below, joined by "_" *)

\* "Grant Desc", "Midpoint", "Mid", "CHECKIN", "Check", "Transcript", "Survey",
\* "Impact Report", "Closeout", "Point"
FilenameWords ==
    {<<"G", "r", "a", "n", "t", " ", "D", "e", "s", "c">>,
     <<"M", "i", "d", "p", "o", "i", "n", "t">>,
     <<"M", "i", "d">>,
     <<"C", "H", "E", "C", "K", "I", "N">>,
     <<"C", "h", "e", "c", "k">>,
     <<"T", "r", "a", "n", "s", "c", "r", "i", "p", "t">>,
     <<"S", "u", "r", "v", "e", "y">>,
     <<"I", "m", "p", "a", "c", "t", " ", "R", "e", "p", "o", "r", "t">>,
     <<"C", "l", "o", "s", "e", "o", "u", "t">>,
     <<"P", "o", "i", "n", "t">>}

RECURSIVE JoinWords(_)
JoinWords(ws) ==
    IF ws = <<>> THEN <<>>
    ELSE IF Len(ws) = 1 THEN Head(ws)
    ELSE Head(ws) \o <<"_">> \o JoinWords(Tail(ws))

Filenames == {JoinWords(ws) : ws \in UNION {[1..n -> FilenameWords] : n \in 0..MaxWords}}

InitFilename ==
    /\ store = {}
    /\ drive = [f \in FileIds |-> 1]
    /\ grantCache = NoCache
    /\ chunkCounter = 0
    /\ run = NoRun
    /\ pc = "filename"
    /\ ret = NoRet
    /\ calls = 0
    /\ hist = NoHist
    /\ last = NoLast
    /\ synced = [f \in FileIds |-> {}]
    /\ origin = <<>>
    /\ stamped = {}
    /\ faults = 0
    /\ runs = 0
    /\ procs = <<>>
    /\ promises = <<>>
    /\ inflightGenerations = <<>>

\* parseFilename(filename), its documentType
CallParseFilename(filename) ==
    /\ pc = "filename"
    /\ ret = NoRet
    /\ ret' = [op |-> "parseFilename", filename |-> filename,
               documentType |-> detectDocumentType(filename)]
    /\ UNCHANGED <<store, drive, grantCache, chunkCounter, run, pc, calls, hist, last,
                   synced, origin, stamped, faults, runs,
                   procs, promises, inflightGenerations>>

NextFilename ==
    /\ ret = NoRet
    /\ \E filename \in Filenames : CallParseFilename(filename)

SpecFilename == InitFilename /\ [][NextFilename]_vars

-----------------------------------------------------------------------------
(* upsertChunks (vector-store.ts) called on chunk lists around one and two
   full batches, with texts around the maximum text length, and with the
   first, second or third store call failing *)

UpsertLengths == {0, 1, UpsertBatchSize, UpsertBatchSize + 1, 2 * UpsertBatchSize + 1}

UpsertTexts == {<< Body(10) >>, << Body(MaxTextLength) >>, << Body(MaxTextLength + 1) >>,
                << Body(20000), Body(20000) >>}

\* n chunks with the identifiers 1..n, the last one carrying the text
UpsertInput(n, text) ==
    [i \in 1..n |-> [chunkUid |-> i,
                     text |-> IF i = n THEN text ELSE << Body(10) >>,
                     metadata |-> [chunk_index |-> i - 1, chunk_uid |-> i]]]

InitUpsert ==
    /\ store = {}
    /\ drive = [f \in FileIds |-> 1]
    /\ grantCache = NoCache
    /\ chunkCounter = 0
    /\ run = NoRun
    /\ pc = "upsert"
    /\ ret = NoRet
    /\ calls = 0
    /\ hist = NoHist
    /\ last = NoLast
    /\ synced = [f \in FileIds |-> {}]
    /\ origin = <<>>
    /\ stamped = {}
    /\ faults = 0
    /\ runs = 0
    /\ procs = <<>>
    /\ promises = <<>>
    /\ inflightGenerations = <<>>

\* One call of upsertChunks; sent is the list of the record batches handed to
\* index.upsertRecords, the failing call included
CallUpsertChunks(chunks, failAt) ==
    /\ pc = "upsert"
    /\ ret = NoRet
    /\ runs < MaxRuns
    /\ \E o \in {upsertChunks(store, chunks, failAt)} :
          /\ failAt <= o.calls
          /\ store' = o.store
          /\ calls' = calls + o.calls
          /\ ret' = [op |-> "upsertChunks", chunks |-> chunks, threw |-> o.threw,
                     sent |-> [b \in 1..o.calls |->
                                 BatchOf([i \in 1..Len(chunks) |-> ToRecord(chunks[i])],
                                         b, UpsertBatchSize)]]
    /\ runs' = runs + 1
    /\ UNCHANGED <<drive, grantCache, chunkCounter, run, pc, hist, last, synced, origin,
                   stamped, faults,
                   procs, promises, inflightGenerations>>

\* The caller goes on
TakeUpsert ==
    /\ pc = "upsert"
    /\ ret # NoRet
    /\ ret' = NoRet
    /\ UNCHANGED <<store, drive, grantCache, chunkCounter, run, pc, calls, hist, last,
                   synced, origin, stamped, faults, runs,
                   procs, promises, inflightGenerations>>

NextUpsert ==
    \/ /\ ret = NoRet
       /\ \E n \in UpsertLengths, text \in UpsertTexts, failAt \in 0..3 :
             CallUpsertChunks(UpsertInput(n, text), failAt)
    \/ TakeUpsert

SpecUpsert == InitUpsert /\ [][NextUpsert]_vars

-----------------------------------------------------------------------------
(* makeChunk (ingestion.ts) in two processes that run the ingestion code, each
   with its own module-level chunkCounter and its own readings of Date.now().
   procs holds, for each process, its counter, its last clock reading and the
   chunk uids it has made. *)

Processes == {"p1", "p2"}

\* `chunk_${Date.now()}_${chunkCounter}`: the text is one-to-one with the pair
chunkUidOf(now, counter) == [now |-> now, counter |-> counter]

InitUid ==
    /\ store = {}
    /\ drive = [f \in FileIds |-> 1]
    /\ grantCache = NoCache
    /\ chunkCounter = 0
    /\ run = NoRun
    /\ pc = "uid"
    /\ ret = NoRet
    /\ calls = 0
    /\ hist = NoHist
    /\ last = NoLast
    /\ synced = [f \in FileIds |-> {}]
    /\ origin = <<>>
    /\ stamped = {}
    /\ faults = 0
    /\ runs = 0
    /\ procs = [p \in Processes |-> [chunkCounter |-> 0, now |-> 0, made |-> <<>>]]
    /\ promises = <<>>
    /\ inflightGenerations = <<>>

\* Process p makes a chunk when its clock reads now; a clock does not run
\* backwards
MakeChunkIn(p, now) ==
    /\ pc = "uid"
    /\ procs[p].chunkCounter < MaxMade
    /\ now >= procs[p].now
    /\ procs' = [procs EXCEPT ![p] =
                   [chunkCounter |-> @.chunkCounter + 1,
                    now |-> now,
                    made |-> Append(@.made, chunkUidOf(now, @.chunkCounter + 1))]]
    /\ UNCHANGED <<store, drive, grantCache, chunkCounter, run, pc, ret, calls, hist, last,
                   synced, origin, stamped, faults, runs, promises, inflightGenerations>>

NextUid == \E p \in Processes, now \in 1..MaxClock : MakeChunkIn(p, now)

SpecUid == InitUid /\ [][NextUid]_vars

-----------------------------------------------------------------------------
(* getOrGenerateSummary (summary-generator.ts) called several times in one
   process.  A call runs from one await to the next in one step; the steps of
   different calls and of the generations interleave.  procs is the list of
   the calls made, promises the list of the generateAndCache promises. *)

SummaryReferences == {"2025001", "2026044"}

SummaryCard(referenceNumber) ==
    [_id |-> "summary_card_" \o referenceNumber, record_type |-> "summary_card",
     reference_number |-> referenceNumber]

\* Map.prototype.set and Map.prototype.delete
MapSet(map, key, value) ==
    [k \in (DOMAIN map) \cup {key} |-> IF k = key THEN value ELSE map[k]]

MapDelete(map, key) == [k \in (DOMAIN map) \ {key} |-> map[k]]

\* A removal that happens only when the generation succeeded
deleteOnSuccess(map, referenceNumber, state) ==
    IF state = "fulfilled" THEN MapDelete(map, referenceNumber) ELSE map

\* try { return await promise } finally { inflightGenerations.delete(...) }
finallyDelete(map, referenceNumber, state) == MapDelete(map, referenceNumber)

Settled(p) == promises[p].state \in {"fulfilled", "rejected"}

InitSummary ==
    /\ store = {}
    /\ drive = [f \in FileIds |-> 1]
    /\ grantCache = NoCache
    /\ chunkCounter = 0
    /\ run = NoRun
    /\ pc = "summary"
    /\ ret = NoRet
    /\ calls = 0
    /\ hist = NoHist
    /\ last = NoLast
    /\ synced = [f \in FileIds |-> {}]
    /\ origin = <<>>
    /\ stamped = {}
    /\ faults = 0
    /\ runs = 0
    /\ procs = <<>>
    /\ promises = <<>>
    /\ inflightGenerations = <<>>

\* getOrGenerateSummary is called and issues the cache query; overlapped is the
\* set of the calls that have not returned yet
CallGetOrGenerateSummary(referenceNumber) ==
    /\ pc = "summary"
    /\ Len(procs) < MaxCalls
    /\ procs' = Append(procs, [referenceNumber |-> referenceNumber, at |-> "fetching",
                               cached |-> "none", promise |-> 0, outcome |-> "none",
                               overlapped |-> {c \in 1..Len(procs) : procs[c].at # "done"}])
    /\ UNCHANGED <<store, drive, grantCache, chunkCounter, run, pc, ret, calls, hist, last,
                   synced, origin, stamped, faults, runs, promises, inflightGenerations>>

\* The store answers the query of fetchSummaryCard from what it holds now
FetchAnswers(c, ok) ==
    /\ pc = "summary"
    /\ procs[c].at = "fetching"
    /\ ok \/ faults < MaxFaults
    /\ procs' = [procs EXCEPT ![c].at = "fetched",
                              ![c].cached =
                                 IF ~ok THEN "throws"
                                 ELSE IF SummaryCard(procs[c].referenceNumber) \in store
                                      THEN "hit" ELSE "miss"]
    /\ faults' = IF ok THEN faults ELSE faults + 1
    /\ UNCHANGED <<store, drive, grantCache, chunkCounter, run, pc, ret, calls, hist, last,
                   synced, origin, stamped, runs, promises, inflightGenerations>>

\* The call resumes after await fetchSummaryCard and runs to its next await
AfterFetch(c) ==
    /\ pc = "summary"
    /\ procs[c].at = "fetched"
    /\ \E referenceNumber \in {procs[c].referenceNumber} :
          IF procs[c].cached = "throws"
          THEN /\ procs' = [procs EXCEPT ![c].at = "done", ![c].outcome = "rejected"]
               /\ UNCHANGED <<promises, inflightGenerations>>
          ELSE IF procs[c].cached = "hit"
          THEN /\ procs' = [procs EXCEPT ![c].at = "done", ![c].outcome = "card"]
               /\ UNCHANGED <<promises, inflightGenerations>>
          ELSE IF referenceNumber \in DOMAIN inflightGenerations
          THEN /\ procs' = [procs EXCEPT ![c].at = "awaiting",
                                         ![c].promise = inflightGenerations[referenceNumber]]
               /\ UNCHANGED <<promises, inflightGenerations>>
          ELSE /\ promises' = Append(promises, [referenceNumber |-> referenceNumber,
                                                by |-> c, state |-> "claude"])
               /\ inflightGenerations' = MapSet(inflightGenerations, referenceNumber,
                                                Len(promises) + 1)
               /\ procs' = [procs EXCEPT ![c].at = "generating",
                                         ![c].promise = Len(promises) + 1]
    /\ UNCHANGED <<store, drive, grantCache, chunkCounter, run, pc, ret, calls, hist, last,
                   synced, origin, stamped, faults, runs>>

\* generateAndCache: callClaude answers (a failure of searchChunks before it is
\* caught)
ClaudeAnswers(p, ok) ==
    /\ pc = "summary"
    /\ promises[p].state = "claude"
    /\ ok \/ faults < MaxFaults
    /\ promises' = [promises EXCEPT ![p].state = IF ok THEN "upsert" ELSE "rejected"]
    /\ faults' = IF ok THEN faults ELSE faults + 1
    /\ UNCHANGED <<store, drive, grantCache, chunkCounter, run, pc, ret, calls, hist, last,
                   synced, origin, stamped, runs, procs, inflightGenerations>>

\* generateAndCache: upsertSummaryCard answers (its failure is caught) and the
\* card is returned
CacheAnswers(p, ok) ==
    /\ pc = "summary"
    /\ promises[p].state = "upsert"
    /\ ok \/ faults < MaxFaults
    /\ store' = IF ok THEN store \cup {SummaryCard(promises[p].referenceNumber)} ELSE store
    /\ promises' = [promises EXCEPT ![p].state = "fulfilled"]
    /\ faults' = IF ok THEN faults ELSE faults + 1
    /\ UNCHANGED <<drive, grantCache, chunkCounter, run, pc, ret, calls, hist, last,
                   synced, origin, stamped, runs, procs, inflightGenerations>>

\* A call resumes after the promise it awaits has settled: the call that
\* started the generation runs its finally block, and the call returns
AfterGeneration(c) ==
    /\ pc = "summary"
    /\ procs[c].at \in {"awaiting", "generating"}
    /\ Settled(procs[c].promise)
    /\ procs' = [procs EXCEPT ![c].at = "done",
                              ![c].outcome = IF promises[procs[c].promise].state = "fulfilled"
                                             THEN "card" ELSE "rejected"]
    /\ inflightGenerations' =
          IF procs[c].at = "generating"
          THEN finallyDelete(inflightGenerations, procs[c].referenceNumber,
                             promises[procs[c].promise].state)
          ELSE inflightGenerations
    /\ UNCHANGED <<store, drive, grantCache, chunkCounter, run, pc, ret, calls, hist, last,
                   synced, origin, stamped, faults, runs, promises>>

NextSummary ==
    \/ \E referenceNumber \in SummaryReferences : CallGetOrGenerateSummary(referenceNumber)
    \/ \E c \in 1..Len(procs), ok \in BOOLEAN : FetchAnswers(c, ok)
    \/ \E c \in 1..Len(procs) : AfterFetch(c)
    \/ \E p \in 1..Len(promises), ok \in BOOLEAN : ClaudeAnswers(p, ok)
    \/ \E p \in 1..Len(promises), ok \in BOOLEAN : CacheAnswers(p, ok)
    \/ \E c \in 1..Len(procs) : AfterGeneration(c)

SpecSummary == InitSummary /\ [][NextSummary]_vars

-----------------------------------------------------------------------------
(* lookupGrant and resetGrantCache (grant-lookup.ts) called in one process, a
   lookup running from one await to the next in one step.  procs is the list
   of the lookups made; hist counts the resets and remembers after how many
   resets the sheet was read for the rows now in grantCache. *)

NoResets == [resets |-> 0, loadedAfter |-> 0]

InitCache ==
    /\ store = {}
    /\ drive = [f \in FileIds |-> 1]
    /\ grantCache = NoCache
    /\ chunkCounter = 0
    /\ run = NoRun
    /\ pc = "cache"
    /\ ret = NoRet
    /\ calls = 0
    /\ hist = NoResets
    /\ last = NoLast
    /\ synced = [f \in FileIds |-> {}]
    /\ origin = <<>>
    /\ stamped = {}
    /\ faults = 0
    /\ runs = 0
    /\ procs = <<>>
    /\ promises = <<>>
    /\ inflightGenerations = <<>>

\* lookupGrant is called: with rows in the cache it answers at once, with an
\* empty cache it awaits fetchGrantsFromSheet
CallLookupGrantCached(referenceNumber) ==
    /\ pc = "cache"
    /\ Len(procs) < MaxCalls
    /\ procs' = Append(procs,
          IF grantCache # NoCache
          THEN [at |-> "done", referenceNumber |-> referenceNumber, after |-> hist.resets,
                fetches |-> FALSE, sawEmpty |-> FALSE, readAfter |-> hist.loadedAfter,
                value |-> findGrant(grantCache, referenceNumber, NoName)]
          ELSE [at |-> "fetching", referenceNumber |-> referenceNumber,
                after |-> hist.resets, fetches |-> TRUE, sawEmpty |-> TRUE,
                readAfter |-> 0, value |-> NoGrant])
    /\ UNCHANGED <<store, drive, grantCache, chunkCounter, run, pc, ret, calls, hist, last,
                   synced, origin, stamped, faults, runs, promises, inflightGenerations>>

\* The sheet is read for a lookup that awaits fetchGrantsFromSheet
SheetAnswers(c, ok) ==
    /\ pc = "cache"
    /\ procs[c].at = "fetching"
    /\ ok \/ faults < MaxFaults
    /\ procs' = [procs EXCEPT ![c].at = IF ok THEN "fetched" ELSE "rejected",
                              ![c].readAfter = hist.resets]
    /\ faults' = IF ok THEN faults ELSE faults + 1
    /\ UNCHANGED <<store, drive, grantCache, chunkCounter, run, pc, ret, calls, hist, last,
                   synced, origin, stamped, runs, promises, inflightGenerations>>

\* The lookup resumes: grantCache = await fetchGrantsFromSheet(), then the search
AfterFetchGrants(c) ==
    /\ pc = "cache"
    /\ procs[c].at = "fetched"
    /\ grantCache' = SheetGrants
    /\ hist' = [hist EXCEPT !.loadedAfter = procs[c].readAfter]
    /\ procs' = [procs EXCEPT ![c].at = "done",
                              ![c].value = findGrant(SheetGrants, procs[c].referenceNumber,
                                                     NoName)]
    /\ UNCHANGED <<store, drive, chunkCounter, run, pc, ret, calls, last,
                   synced, origin, stamped, faults, runs, promises, inflightGenerations>>

resetGrantCache ==
    /\ pc = "cache"
    /\ hist.resets < MaxRuns
    /\ grantCache' = NoCache
    /\ hist' = [hist EXCEPT !.resets = @ + 1]
    /\ UNCHANGED <<store, drive, chunkCounter, run, pc, ret, calls, last,
                   synced, origin, stamped, faults, runs, procs, promises,
                   inflightGenerations>>

NextCache ==
    \/ \E referenceNumber \in LookupReferences : CallLookupGrantCached(referenceNumber)
    \/ \E c \in 1..Len(procs), ok \in BOOLEAN : SheetAnswers(c, ok)
    \/ \E c \in 1..Len(procs) : AfterFetchGrants(c)
    \/ resetGrantCache

SpecCache == InitCache /\ [][NextCache]_vars

-----------------------------------------------------------------------------
(* processAndStoreFile (drive-sync.ts) on one file, followed by the
   shouldSkipFile check the next syncDriveFiles run makes for that file.  The
   long file is one whose text chunkDocument cuts into one chunk more than an
   upsert batch holds; its chunks are handed to steps 4 to 6 directly. *)

ResumeFiles == {f \in CallFiles : f.id \in {"f1", "f5"}}

LongFile == [id |-> "f8", name |-> "n1", mimeType |-> MimePdf, modifiedTime |-> 1]

\* What chunkDocument returns for the long file
LongFileChunks(counter) ==
    [k \in 1..(UpsertBatchSize + 1) |->
       makeChunk(Draft(<< Body(1000) >>, k - 1, "full_document", [kind |-> "Section", n |-> k]),
                 buildBaseMetadata([file |-> LongFile, documentType |-> "grant_description",
                                    referenceNumber |-> "2024010B", granteeName |-> AcmeOrg],
                                   grantMapGet(SheetGrants, "2024010B")),
                 counter, k)]

ResumePlans ==
    {[NoPlan EXCEPT !.extract = e, !.query3 = q, !.upsertFailAt = u] :
        e \in BOOLEAN, q \in BOOLEAN, u \in 0..2}

InitResume ==
    /\ store = {}
    /\ drive = [f \in FileIds |-> 1]
    /\ grantCache = NoCache
    /\ chunkCounter = 0
    /\ run = NoRun
    /\ pc = "resume"
    /\ ret = NoRet
    /\ calls = 0
    /\ hist = NoHist
    /\ last = NoLast
    /\ synced = [f \in FileIds |-> {}]
    /\ origin = <<>>
    /\ stamped = {}
    /\ faults = 0
    /\ runs = 0
    /\ procs = <<>>
    /\ promises = <<>>
    /\ inflightGenerations = <<>>

\* What processAndStoreFile left behind
StoreReturn(file, o) ==
    [op |-> "processAndStoreFile", file |-> file, threw |-> o.threw, chunks |-> o.chunks,
     calls |-> o.calls]

\* syncDriveFiles calls processAndStoreFile for a file it did not skip
CallProcessAndStoreFile(file, folder, plan) ==
    /\ pc = "resume"
    /\ ret = NoRet
    /\ runs < MaxRuns
    /\ faults + Cardinality(PlanFaults(plan)) <= MaxFaults
    /\ \E o \in {processAndStoreFile(file,
                                      grantMapGet(SheetGrants,
                                                  parseFilename(file.name).referenceNumber),
                                      1, folder.documentType, store, chunkCounter, plan)} :
          /\ PlanFaults(plan) \subseteq o.consulted
          /\ store' = o.store
          /\ chunkCounter' = o.counter
          /\ calls' = calls + o.calls
          /\ ret' = StoreReturn(file, o)
    /\ faults' = faults + Cardinality(PlanFaults(plan))
    /\ runs' = runs + 1
    /\ UNCHANGED <<drive, grantCache, run, pc, hist, last, synced, origin, stamped,
                   procs, promises, inflightGenerations>>

\* processAndStoreFile for the long file, from the enrichment of its chunks on
CallStoreChunked(plan) ==
    /\ pc = "resume"
    /\ ret = NoRet
    /\ runs < MaxRuns
    /\ plan.extract
    /\ faults + Cardinality(PlanFaults(plan)) <= MaxFaults
    /\ \E o \in {storeChunked(enrichAll(LongFileChunks(chunkCounter), LongFile,
                                        grantMapGet(SheetGrants, "2024010B"), 1),
                              getChunksByFileId(store, LongFile.id, plan.query3,
                                                Matches(store, "drive_file_id", LongFile.id)),
                              LongFile, store, chunkCounter, plan)} :
          /\ PlanFaults(plan) \subseteq o.consulted
          /\ store' = o.store
          /\ chunkCounter' = o.counter
          /\ calls' = calls + o.calls
          /\ ret' = StoreReturn(LongFile, o)
    /\ faults' = faults + Cardinality(PlanFaults(plan))
    /\ runs' = runs + 1
    /\ UNCHANGED <<drive, grantCache, run, pc, hist, last, synced, origin, stamped,
                   procs, promises, inflightGenerations>>

\* The next run reaches the file, unchanged, and asks shouldSkipFile
CallNextShouldSkipFile(queryOk, first) ==
    /\ pc = "resume"
    /\ ret # NoRet
    /\ ret.op = "processAndStoreFile"
    /\ ret' = [op |-> "shouldSkipFile", file |-> ret.file, after |-> ret,
               queryOk |-> queryOk,
               value |-> shouldSkipFile(store, ret.file.id, ret.file.modifiedTime, queryOk,
                                        Matches(store, "drive_file_id", ret.file.id),
                                        first).value]
    /\ UNCHANGED <<store, drive, grantCache, chunkCounter, run, pc, calls, hist, last,
                   synced, origin, stamped, faults, runs, procs, promises,
                   inflightGenerations>>

\* The next run goes on according to the answer
TakeSkip ==
    /\ pc = "resume"
    /\ ret # NoRet
    /\ ret.op = "shouldSkipFile"
    /\ ret' = NoRet
    /\ UNCHANGED <<store, drive, grantCache, chunkCounter, run, pc, calls, hist, last,
                   synced, origin, stamped, faults, runs, procs, promises,
                   inflightGenerations>>

NextResume ==
    \/ /\ ret = NoRet
       /\ \E file \in ResumeFiles, i \in 1..Len(DRIVE_FOLDERS), plan \in ResumePlans :
             CallProcessAndStoreFile(file, DRIVE_FOLDERS[i], plan)
    \/ /\ ret = NoRet
       /\ \E plan \in ResumePlans : CallStoreChunked(plan)
    \/ /\ ret # NoRet
       /\ \E queryOk \in BOOLEAN :
             \E first \in FirstOf(Matches(store, "drive_file_id", ret.file.id)) :
                CallNextShouldSkipFile(queryOk, first)
    \/ TakeSkip

SpecResume == InitResume /\ [][NextResume]_vars

-----------------------------------------------------------------------------
(* Two syncDriveFiles runs of one process under way on the same file
   (drive-sync.ts).  An earlier run stored the file, the file changed, and the
   two runs each go from one await of the loop body to the next; the query of
   step 5 and the delete it gates are taken in one step. *)

OverlapFiles == {"f1", "f2", "f3"}

InitOverlap ==
    /\ store = {}
    /\ drive = [f \in FileIds |-> 1]
    /\ grantCache = NoCache
    /\ chunkCounter = 0
    /\ run = NoRun
    /\ pc = "overlap"
    /\ ret = NoRet
    /\ calls = 0
    /\ hist = NoHist
    /\ last = NoLast
    /\ synced = [f \in FileIds |-> {}]
    /\ origin = <<>>
    /\ stamped = {}
    /\ faults = 0
    /\ runs = 0
    /\ procs = <<>>
    /\ promises = <<>>
    /\ inflightGenerations = <<>>

\* The grant syncDriveFiles resolves for a file (lines 93-108)
GrantOfFile(file) == grantMapGet(SheetGrants, parseFilename(file.name).referenceNumber)

\* A run that is alone stores the file: processAndStoreFile from start to end
EarlierSync(f) ==
    /\ pc = "overlap"
    /\ procs = <<>>
    /\ store = {}
    /\ LET file == FileInfo(f)
           o == processAndStoreFile(file, GrantOfFile(file), 1,
                                    DRIVE_FOLDERS[1].documentType, store, chunkCounter, NoPlan)
       IN /\ store' = o.store
          /\ chunkCounter' = o.counter
          /\ calls' = calls + o.calls
          /\ origin' = origin \o [k \in 1..(o.counter - chunkCounter) |->
                                   [file |-> f, by |-> 0]]
    /\ UNCHANGED <<drive, grantCache, run, pc, ret, hist, last, synced, stamped, faults,
                   runs, procs, promises, inflightGenerations>>

\* The stored file is edited on the Drive
FileChanges(f) ==
    /\ pc = "overlap"
    /\ procs = <<>>
    /\ store # {}
    /\ drive[f] = 1
    /\ \A r \in store : origin[r._id].file = f
    /\ drive' = [drive EXCEPT ![f] = 2]
    /\ UNCHANGED <<store, grantCache, chunkCounter, run, pc, ret, calls, hist, last,
                   synced, origin, stamped, faults, runs, procs, promises,
                   inflightGenerations>>

\* A run reaches the changed file (line 113) while no other run has finished it
RunReachesFile(f) ==
    /\ pc = "overlap"
    /\ drive[f] = 2
    /\ Len(procs) < 2
    /\ \A c \in 1..Len(procs) : procs[c].pos # "done"
    /\ procs' = Append(procs, [pos |-> "skip", file |-> FileInfo(f), isUpdate |-> FALSE,
                               chunks |-> <<>>, outcome |-> "none"])
    /\ UNCHANGED <<store, drive, grantCache, chunkCounter, run, pc, ret, calls, hist, last,
                   synced, origin, stamped, faults, runs, promises, inflightGenerations>>

\* lines 113-116: shouldSkipFile answers
SkipAnswers(c, first) ==
    /\ pc = "overlap"
    /\ procs[c].pos = "skip"
    /\ LET file == procs[c].file
           skip == shouldSkipFile(store, file.id, file.modifiedTime, TRUE,
                                  Matches(store, "drive_file_id", file.id), first).value
       IN procs' = [procs EXCEPT ![c].pos = IF skip THEN "done" ELSE "update",
                                 ![c].outcome = IF skip THEN "skipped" ELSE @]
    /\ UNCHANGED <<store, drive, grantCache, chunkCounter, run, pc, ret, calls, hist, last,
                   synced, origin, stamped, faults, runs, promises, inflightGenerations>>

\* lines 119-120: getChunksByFileId answers, isUpdate
UpdateAnswers(c) ==
    /\ pc = "overlap"
    /\ procs[c].pos = "update"
    /\ LET file == procs[c].file
       IN procs' = [procs EXCEPT
            ![c].pos = "extract",
            ![c].isUpdate = getChunksByFileId(store, file.id, TRUE,
                                              Matches(store, "drive_file_id", file.id)) # {}]
    /\ UNCHANGED <<store, drive, grantCache, chunkCounter, run, pc, ret, calls, hist, last,
                   synced, origin, stamped, faults, runs, promises, inflightGenerations>>

\* processAndStoreFile, steps 1 to 4: the text arrives, chunkDocument, enrichment
ExtractAnswers(c) ==
    /\ pc = "overlap"
    /\ procs[c].pos = "extract"
    /\ LET file == procs[c].file
           parsed == parseFilename(file.name)
           grant == GrantOfFile(file)
           chunks == enrichAll(
                       chunkDocument(
                         [file |-> file, text |-> extractText(file, TRUE).text,
                          documentType |-> IF parsed.documentType # Null
                                           THEN parsed.documentType
                                           ELSE DRIVE_FOLDERS[1].documentType,
                          referenceNumber |-> parsed.referenceNumber,
                          granteeName |-> grant.grantee_name],
                         grant, FALSE, LlmValid, chunkCounter),
                       file, grant, 2)
       IN /\ procs' = [procs EXCEPT ![c].pos = "replace", ![c].chunks = chunks]
          /\ chunkCounter' = chunkCounter + Len(chunks)
          /\ origin' = origin \o [k \in 1..Len(chunks) |-> [file |-> file.id, by |-> c]]
    /\ UNCHANGED <<store, drive, grantCache, run, pc, ret, calls, hist, last,
                   synced, stamped, faults, runs, promises, inflightGenerations>>

\* processAndStoreFile, step 5: getChunksByFileId answers and, if it found
\* chunks, deleteChunksByFileId removes what its own query finds
ReplaceOld(c) ==
    /\ pc = "overlap"
    /\ procs[c].pos = "replace"
    /\ LET file == procs[c].file
           existingChunks == getChunksByFileId(store, file.id, TRUE,
                                               Matches(store, "drive_file_id", file.id))
           del == IF existingChunks # {}
                  THEN deleteChunksByFileId(store, file.id, TRUE,
                                            Matches(store, "drive_file_id", file.id), 0)
                  ELSE [store |-> store, threw |-> FALSE, calls |-> 0]
       IN /\ store' = del.store
          /\ calls' = calls + del.calls
    /\ procs' = [procs EXCEPT ![c].pos = "upsert"]
    /\ UNCHANGED <<drive, grantCache, chunkCounter, run, pc, ret, hist, last,
                   synced, origin, stamped, faults, runs, promises, inflightGenerations>>

\* processAndStoreFile, step 6, and lines 130-147: upsertChunks returns or throws
UpsertAnswers(c, failAt) ==
    /\ pc = "overlap"
    /\ procs[c].pos = "upsert"
    /\ LET up == upsertChunks(store, procs[c].chunks, failAt)
       IN /\ failAt <= up.calls
          /\ store' = up.store
          /\ calls' = calls + up.calls
          /\ procs' = [procs EXCEPT ![c].pos = "done",
                                    ![c].outcome = IF up.threw THEN "threw" ELSE "processed"]
    /\ UNCHANGED <<drive, grantCache, chunkCounter, run, pc, ret, hist, last,
                   synced, origin, stamped, faults, runs, promises, inflightGenerations>>

NextOverlap ==
    \/ \E f \in OverlapFiles : EarlierSync(f)
    \/ \E f \in OverlapFiles : FileChanges(f)
    \/ \E f \in OverlapFiles : RunReachesFile(f)
    \/ \E c \in 1..Len(procs) :
          \E first \in FirstOf(Matches(store, "drive_file_id", procs[c].file.id)) :
             SkipAnswers(c, first)
    \/ \E c \in 1..Len(procs) : UpdateAnswers(c)
    \/ \E c \in 1..Len(procs) : ExtractAnswers(c)
    \/ \E c \in 1..Len(procs) : ReplaceOld(c)
    \/ \E c \in 1..Len(procs), failAt \in 0..1 : UpsertAnswers(c, failAt)

SpecOverlap == InitOverlap /\ [][NextOverlap]_vars

-----------------------------------------------------------------------------
(* The claims *)

\* The current file of a sync run that is about to handle a file
SyncAtFile == pc = "file" /\ run.entry = "sync"

\* The stored chunks the sync made from a file
SyncChunksOf(st, org, f) ==
    {r \in st : org[r._id].file = f /\ org[r._id].by = "sync"}

\* C1: a sync of a file whose id and modifiedTime were synced before skips the
\* file: the store is not written (no upsert, no delete) and skipped grows by one.
C1_UnchangedFileIsSkipped ==
    [][(SyncAtFile /\ drive[run.files[run.i]] \in synced[run.files[run.i]])
         => /\ store' = store
            /\ calls' = calls
            /\ run'.result.skipped = run.result.skipped + 1]_vars

\* C2: when a sync processes a file that was synced before with another
\* modifiedTime, the store afterwards holds exactly the freshly produced chunks
\* of that file, never the old ones as well.
C2_ChangedFileIsReplaced ==
    [][(/\ SyncAtFile
        /\ synced[run.files[run.i]] # {}
        /\ drive[run.files[run.i]] \notin synced[run.files[run.i]]
        /\ run'.result.processed = run.result.processed + 1)
         => Cardinality(SyncChunksOf(store', origin', run.files[run.i]))
              = chunkCounter' - chunkCounter]_vars

\* C3: shouldSkipFile never throws, and returns true only when the query
\* succeeded and a stored chunk of the file id has drive_file_modified equal to
\* the given modified time; with no chunk, the timestamp absent or different, or
\* the query failing, it returns false.
C3_SkipOnlyOnEqualTimestamp ==
    ret.op = "shouldSkipFile" =>
        /\ ~ret.threw
        /\ ret.value =>
             /\ ret.queryOk
             /\ \E r \in Matches(store, "drive_file_id", ret.driveFileId) :
                   /\ "drive_file_modified" \in DOMAIN r
                   /\ r.drive_file_modified = ret.driveFileModified

\* C3 happens: shouldSkipFile answered true for a file with a stored chunk
C3_Witness ==
    /\ ret.op = "shouldSkipFile"
    /\ ret.value
    /\ Matches(store, "drive_file_id", ret.driveFileId) # {}

\* C8: the generation stamped by a sync run is strictly greater than the
\* generation stamped by every earlier run.
C8_GenerationsIncrease ==
    \A a \in stamped, b \in stamped : a[1] < b[1] => a[2] < b[2]

\* C9: when deleteChunksByFileId returns normally, the store holds no chunk of
\* that drive_file_id, whatever the outcome of its query.
C9_DeleteLeavesNoChunk ==
    (ret.op = "deleteChunksByFileId" /\ ~ret.threw)
       => Matches(store, "drive_file_id", ret.driveFileId) = {}

\* C4: in a dry run of runIngestion no step writes the store or issues a store
\* write call, also with forceReprocess set, while processedFiles counts the
\* segmented files and totalChunks their chunks.
C4_DryRunWritesNothing ==
    [][(run.entry = "ingest" /\ run.options.dryRun)
         => /\ store' = store
            /\ calls' = calls
            /\ (run'.entry = "ingest"
                  => /\ run'.result.processedFiles = Len(hist'.segmented)
                     /\ run'.result.totalChunks = SumSeq(hist'.segmented))]_vars

\* C4 happens: a dry run with forceReprocess over a non-empty store counted files
C4_Witness ==
    /\ pc = "done" /\ run.entry = "ingest"
    /\ run.options.dryRun /\ run.options.forceReprocess
    /\ run.result.processedFiles >= 2
    /\ store # {}

\* The files runIngestion has to visit, given the listings that succeeded
ExpectedVisits ==
    Flatten([k \in 1..Len(hist.listed) |->
               IF hist.listed[k].ok THEN FolderListing(hist.listed[k].folder) ELSE <<>>])

\* C5: runIngestion never aborts on an exception of a file or a folder listing:
\* errors holds exactly one entry per exception, keyed by the file name or the
\* folder label, and at the end every selected folder was listed and every file
\* of every listed folder was visited.
C5_IngestionOutlivesExceptions ==
    run.entry = "ingest" =>
        /\ pc # "failed"
        /\ Len(run.result.errors) = Len(hist.thrown)
        /\ \A k \in 1..Len(hist.thrown) : run.result.errors[k].file = hist.thrown[k]
        /\ pc = "done" =>
             /\ [k \in 1..Len(hist.listed) |-> hist.listed[k].folder]
                  = [k \in 1..Len(run.folders) |-> run.folders[k].folderId]
             /\ hist.visited = ExpectedVisits

\* C5 happens: the first and the third file threw, and all four files were visited
C5_Witness ==
    /\ pc = "done" /\ run.entry = "ingest"
    /\ Len(run.result.errors) = 2
    /\ run.result.errors[1].file = "n3"
    /\ run.result.errors[2].file = "n2"
    /\ hist.visited = <<"f3", "f4", "f2", "f1">>

\* C6: in runIngestion and in syncDriveFiles alike, a supported file for which
\* no registry record is resolved is processed (extracted, segmented, stored)
\* and leaves no entry in errors.
C6_UnmatchedFileIsNoError ==
    (/\ last.op \in {"ingest", "sync"}
     /\ last.grant = NoGrant
     /\ last.outcome \notin {"unsupported", "skipped", "threw", "registry"})
       => /\ last.outcome = "processed"
          /\ \A k \in 1..Len(run.result.errors) : run.result.errors[k].file # last.file.name

\* The chunks of a paragraph segmentation, as last.segmented records them
ParagraphSegmentation(text) ==
    LET drafts == chunkTranscriptByParagraph(text)
    IN [k \in 1..Len(drafts) |-> [text |-> drafts[k].text,
                                  section_type |-> drafts[k].section_type]]

\* C7: whenever the LLM-assisted segmentation fails (no key, the call throws, or
\* the output is not JSON of the expected structure) chunkDocument returns the
\* paragraph segmentation of the text, and errors gets no entry for the file.
C7_LlmFailureFallsBack ==
    (/\ last.op = "ingest"
     /\ last.llm # <<>>
     /\ last.segmented # <<>>
     /\ ~IsExpectedStructure(last.llm[1]))
       => /\ last.segmented[1]
               = ParagraphSegmentation(FileText(last.file.id, last.file.modifiedTime))
          /\ \A k \in 1..Len(run.result.errors) : run.result.errors[k].file # last.file.name

\* C10: a run in which the registry could not be loaded does not return normally.
C10_RegistryFailureFailsRun ==
    pc = "done" => ~hist.registryFailed


\* A step of a live runIngestion with forceReprocess over its current file
ForcedLiveStep ==
    /\ pc = "file" /\ run.entry = "ingest"
    /\ run.options.forceReprocess /\ ~run.options.dryRun
    /\ hist'.visited # hist.visited

\* The stored records whose source_file is the given name
StoredOfSourceFile(st, name) ==
    {r \in st : "source_file" \in DOMAIN r /\ r.source_file = name}

C12_ShortTextIsSkipped ==
    (ret # NoRet /\ ~ret.extracted.threw /\ TextLength(ret.extracted.text) < 50)
      => /\ ret.chunks = 0
         /\ ret.calls = 0
         /\ ~ret.wrote
         /\ (ret.op = "processFile" => ret.result.processedFiles = 0)
         /\ (ret.op = "syncFile" => ret.result.processed = 0)

\* The chunks returned by one of the two paragraph-accumulating strategies
AccumulatedChunks ==
    IF ret # NoRet /\ ret.op \in {"chunkBySize", "chunkTranscriptByParagraph"}
    THEN ret.value ELSE <<>>

\* C13: every chunk of chunkBySize(text, maxChars) and of
\* chunkTranscriptByParagraph (budget 1500) has a text of at most the budget
\* unless it consists of exactly one paragraph; the chunks' texts are whole
\* paragraphs of the input, in the input's order.
C13_ChunkWithinBudget ==
    /\ \A k \in 1..Len(AccumulatedChunks) :
          \/ TextLength(AccumulatedChunks[k].text) <= ret.budget
          \/ Len(AccumulatedChunks[k].text) = 1
    /\ IsSubsequence(Flatten([k \in 1..Len(AccumulatedChunks) |-> AccumulatedChunks[k].text]),
                     IF ret = NoRet THEN <<>> ELSE ret.text)

\* chunkGrantDescription returned for a text none of whose lines is a heading
NoHeadingReturn ==
    /\ ret # NoRet /\ ret.op = "chunkGrantDescription"
    /\ \A i \in 1..Len(ret.text) : ~isHeading(ret.text[i])

\* C14 as stated: for a grant description without heading line
\* chunkGrantDescription returns the chunkBySize(text, 2000) result, every chunk
\* tagged full_document, and at least one chunk whenever the text is non-empty.
C14_NoHeadingNonEmptyGivesChunk ==
    NoHeadingReturn
      => /\ ret.value = chunkBySize(ret.text, 2000)
         /\ \A k \in 1..Len(ret.value) : ret.value[k].section_type = "full_document"
         /\ (TextLength(ret.text) > 0 => Len(ret.value) >= 1)

\* C14 amended: for a grant description without heading line
\* chunkGrantDescription returns the chunkBySize(text, 2000) result, every chunk
\* tagged full_document and made of whole paragraphs of the text, and at least
\* one chunk whenever the text holds a character that is not white space.
C14_NoHeadingFallsBackToSize ==
    NoHeadingReturn
      => /\ ret.value = chunkBySize(ret.text, 2000)
         /\ \A k \in 1..Len(ret.value) :
               /\ ret.value[k].section_type = "full_document"
               /\ IsSubsequence(ret.value[k].text, ret.text)
               /\ ret.value[k].chunk_index = k - 1
         /\ (TrimmedLength(ret.text) > 0 => Len(ret.value) >= 1)
         /\ (TrimmedLength(ret.text) = 0 => Len(ret.value) = 0)

\* C14 happens: a text without heading line, holding a blank paragraph and more
\* than 2000 other characters, came back as two full_document chunks
C14_Witness ==
    /\ NoHeadingReturn
    /\ \E i \in 1..Len(ret.text) : ret.text[i].kind = "blank"
    /\ Len(ret.value) = 2
    /\ ret.value[2].section_type = "full_document"

\* The closed tag set of each document type's strategy, with the fallback tag
StrategyTags(documentType) ==
    {"full_document"} \cup
    CASE documentType = "grant_description" ->
           {"project_summary", "scope_of_work", "partnerships", "technology", "timeline",
            "outcomes", "measurement", "budget"}
      [] documentType = "impact_survey" ->
           {"breadth_scale", "depth_outcomes", "learnings", "challenges", "future_plans",
            "feedback", "financial"}
      [] documentType = "midpoint_survey" ->
           {"stage", "progress", "early_signals", "challenges"}
      [] OTHER ->
           {"progress", "challenges", "pivots", "data_measurement", "org_changes",
            "future_plans", "support_requests", "notable_quotes", "transcript_summary"}

\* C15: every chunk chunkDocument returns carries a document_type that is one
\* of the five document types and a section_type of the closed tag set of that
\* document type's strategy, for every text and every LLM output.
C15_TagsAreOfTheClosedSet ==
    (ret # NoRet /\ ret.op = "chunkDocument")
      => \A k \in 1..Len(ret.value) :
            /\ ret.value[k].metadata.document_type \in DocumentType
            /\ ret.value[k].metadata.document_type = ret.documentType
            /\ ret.value[k].metadata.section_type \in StrategyTags(ret.documentType)
            /\ ret.value[k].metadata.section_type \in SectionType

\* C16: in a live run of runIngestion or syncDriveFiles, whenever the run is
\* about to handle a file after an earlier file of the same run, a delay has
\* been awaited since that earlier file, also when the two files are of
\* different folders.
C16_DelayBetweenFiles ==
    (/\ pc = "file"
     /\ run.entry \in {"ingest", "sync"}
     /\ ~run.options.dryRun
     /\ hist.visited # <<>>)
      => hist.slept

\* lookupGrant returned
LookupReturned == ret # NoRet /\ ret.op = "lookupGrant"

Least(S) == CHOOSE i \in S : \A j \in S : i <= j

\* The lower-cased trimmed query name and its words longer than 2 characters
LookupQuery == trim(toLowerCase(ret.granteeName))
LookupQueryWords ==
    LET words == splitWords(LookupQuery, <<>>)
        long == SelectIdx(words, LAMBDA k : Len(words[k]) > 2)
    IN [k \in 1..Len(long) |-> words[long[k]]]

\* The records of the queried reference number, the records whose name
\* contains the query or is contained in it, the number of query words a
\* record's name contains
RefHits ==
    {i \in 1..Len(grantCache) :
        ret.referenceNumber # Null /\ grantCache[i].reference_number = ret.referenceNumber}
SubstringHits ==
    {i \in 1..Len(grantCache) :
        \/ Includes(toLowerCase(grantCache[i].grantee_name), LookupQuery)
        \/ Includes(LookupQuery, toLowerCase(grantCache[i].grantee_name))}
Overlap(i) ==
    Cardinality({k \in 1..Len(LookupQueryWords) :
                   Includes(toLowerCase(grantCache[i].grantee_name), LookupQueryWords[k])})
\* The records holding at least half of the query words, and the best of them
HalfHits ==
    {i \in 1..Len(grantCache) :
        Len(LookupQueryWords) > 0 /\ 2 * Overlap(i) >= Len(LookupQueryWords)}
TopHits == {i \in HalfHits : \A j \in HalfHits : Overlap(j) <= Overlap(i)}

\* C17: lookupGrant(ref, name) returns the first record of reference number
\* ref; otherwise null when the name is null or its lower-cased trimmed form
\* is shorter than 3 characters; otherwise the first record whose lower-cased
\* name contains the query or is contained in it; otherwise the record whose
\* name contains the highest fraction, at least one half, of the query words
\* longer than 2 characters, the earliest such record winning; otherwise null.
C17_LookupOrder ==
    LookupReturned
      => ret.value =
           IF RefHits # {} THEN grantCache[Least(RefHits)]
           ELSE IF ret.granteeName = NoName \/ Len(LookupQuery) < 3 THEN NoGrant
           ELSE IF SubstringHits # {} THEN grantCache[Least(SubstringHits)]
           ELSE IF TopHits # {} THEN grantCache[Least(TopHits)]
           ELSE NoGrant

\* C17 happens: no record has the reference number or a name containing or
\* contained in the query, two records of different names hold the same top
\* share of the query words, and the earlier one was returned
C17_Witness ==
    /\ LookupReturned
    /\ RefHits = {} /\ SubstringHits = {}
    /\ \E i, j \in TopHits : i < j /\ grantCache[i].grantee_name # grantCache[j].grantee_name
    /\ ret.value = grantCache[Least(TopHits)]


\* The patterns of DOC_TYPE_PATTERNS that match the file name parseFilename got
MatchingPatterns ==
    {i \in 1..Len(DOC_TYPE_PATTERNS) :
        regexTest(DOC_TYPE_PATTERNS[i].pat, toLowerCase(ret.filename), 0)}

\* C18: parseFilename's documentType is the type of the first pattern of
\* DOC_TYPE_PATTERNS, in declared order, that matches the file name without
\* regard to case, and null when none matches; so a name that an earlier and a
\* later pattern match gets the earlier pattern's type.
C18_FirstPatternWins ==
    (ret # NoRet /\ ret.op = "parseFilename")
      => /\ (MatchingPatterns = {} => ret.documentType = Null)
         /\ (MatchingPatterns # {}
               => ret.documentType = DOC_TYPE_PATTERNS[Least(MatchingPatterns)].type)

\* C18 happens: a name in capitals matched a closeout pattern and the later
\* generic survey pattern, and was given the closeout type
C18_Witness ==
    /\ ret # NoRet /\ ret.op = "parseFilename"
    /\ \E i, j \in MatchingPatterns :
          /\ i < j
          /\ DOC_TYPE_PATTERNS[i].type = "closeout_transcript"
          /\ DOC_TYPE_PATTERNS[j].type = "impact_survey"
          /\ \A k \in MatchingPatterns : i <= k
    /\ ret.documentType = "closeout_transcript"

\* C19: whenever runIngestion or syncDriveFiles resolved a registry record for
\* the file it handled, every chunk it stored for that file carries that
\* record's reference_number and grantee_name.
C19_IdentityIsTheRecords ==
    [][(pc = "file" /\ hist'.visited # hist.visited /\ last'.grant # NoGrant)
         => \A r \in store' :
               r._id > chunkCounter
                 => /\ r.reference_number = last'.grant.reference_number
                    /\ r.grantee_name = last'.grant.grantee_name]_hist

\* C20: for a file whose media type is a spreadsheet, a presentation, an image
\* or any unrecognized type, extractText returns the empty text and does not
\* throw, whatever the download of the file does.
C20_UnsupportedTypeGivesEmptyText ==
    (ret # NoRet /\ ret.file.mimeType \notin ExtractableMimeTypes)
      => /\ ~ret.extracted.threw
         /\ ret.extracted.text = <<>>

\* C21: a call of upsertChunks that returns has handed every chunk to the store
\* exactly once, in input order, in calls of at least one and at most 96 records,
\* each record with its chunk's text cut to at most 35000 characters; for an
\* empty list it made no store call.
C21_UpsertSendsEachChunkOnce ==
    (pc = "upsert" /\ ret # NoRet /\ ~ret.threw)
      => \E all \in {Flatten(ret.sent)} :
            /\ Len(all) = Len(ret.chunks)
            /\ \A b \in 1..Len(ret.sent) : Len(ret.sent[b]) \in 1..96
            /\ \A i \in 1..Len(all) :
                  /\ all[i]._id = ret.chunks[i].chunkUid
                  /\ TextLength(all[i].text)
                       = (IF TextLength(ret.chunks[i].text) < 35000
                          THEN TextLength(ret.chunks[i].text) ELSE 35000)

\* Three calls were made for a list of more than two full batches whose last
\* text was cut
C21_Witness ==
    /\ pc = "upsert"
    /\ ret # NoRet
    /\ ~ret.threw
    /\ Len(ret.sent) = 3
    /\ TextLength(ret.chunks[Len(ret.chunks)].text) > 35000

\* C22: no two chunks made by makeChunk share a chunkUid, be they made by one
\* process or by two processes that run at the same time.
C22_ChunkUidsAreUnique ==
    pc = "uid"
      => \A p, q \in Processes :
            \A i \in 1..Len(procs[p].made), j \in 1..Len(procs[q].made) :
               procs[p].made[i] = procs[q].made[j] => (p = q /\ i = j)

\* The generations of a reference number that have not settled
PendingGenerations(referenceNumber) ==
    {p \in 1..Len(promises) :
        promises[p].referenceNumber = referenceNumber /\ ~Settled(p)}

\* C23: in getOrGenerateSummary at most one generation per reference number is
\* pending at any time and inflightGenerations holds it while it is pending; an
\* entry of the map is a generation that is pending, or one that has settled,
\* with success or with failure, and whose starting call is about to resume and
\* remove it; the map is empty when no call is pending.
C23_InflightMapTracksGenerations ==
    pc = "summary"
      => /\ \A referenceNumber \in SummaryReferences :
               /\ Cardinality(PendingGenerations(referenceNumber)) <= 1
               /\ \A p \in PendingGenerations(referenceNumber) :
                     /\ referenceNumber \in DOMAIN inflightGenerations
                     /\ inflightGenerations[referenceNumber] = p
         /\ \A referenceNumber \in DOMAIN inflightGenerations :
               \E p \in {inflightGenerations[referenceNumber]} :
                  /\ promises[p].referenceNumber = referenceNumber
                  /\ procs[promises[p].by].at = "generating"
         /\ (\A c \in 1..Len(procs) : procs[c].at = "done")
               => DOMAIN inflightGenerations = {}

\* A generation failed, its starting call has returned, and the map is empty
C23_Witness ==
    /\ pc = "summary"
    /\ \E p \in 1..Len(promises) :
          /\ promises[p].state = "rejected"
          /\ procs[promises[p].by].at = "done"
          /\ \E c \in 1..Len(procs) : c # promises[p].by /\ procs[c].promise = p
    /\ DOMAIN inflightGenerations = {}

\* C25: of two getOrGenerateSummary calls for one reference number of which
\* the later started before the earlier returned, at most one runs
\* generateAndCache.
C25_OverlappingCallsGenerateOnce ==
    pc = "summary"
      => \A p, q \in 1..Len(promises) :
            (/\ p # q
             /\ promises[p].referenceNumber = promises[q].referenceNumber)
              => promises[p].by \notin procs[promises[q].by].overlapped

\* C24: a lookupGrant call fetches the registry only when it finds the cache
\* empty, and a lookupGrant call made after resetGrantCache returned answers
\* from rows read from the sheet after that reset, also when a lookup that
\* started before the reset was still awaiting its fetch.
C24_LookupAnswersFromDataAfterReset ==
    pc = "cache"
      => \A c \in 1..Len(procs) :
            /\ procs[c].fetches => procs[c].sawEmpty
            /\ procs[c].at = "done" => procs[c].readAfter >= procs[c].after

\* C26: a file whose processAndStoreFile threw, at any step and also when an
\* upsert batch failed after earlier batches of the file were stored, is not
\* skipped by the next syncDriveFiles run; shouldSkipFile answers true only
\* when every chunk of the file's current version is in the store.
C26_FailedFileIsNotSkipped ==
    (pc = "resume" /\ ret.op = "shouldSkipFile")
      => /\ ret.after.threw => ~ret.value
         /\ ret.value => \A k \in 1..Len(ret.after.chunks) :
                            ToRecord(ret.after.chunks[k]) \in store

\* The second upsert call of the long file failed after the first batch was
\* stored, and the next run does not skip the file
C26_Witness ==
    /\ pc = "resume"
    /\ ret.op = "shouldSkipFile"
    /\ ret.after.threw
    /\ ret.after.calls = 2
    /\ Cardinality({r \in store : r.source_file = ret.file.name}) >= 96
    /\ ret.queryOk
    /\ ~ret.value

\* C27: a runIngestion or syncDriveFiles step on one file removes from the
\* store no chunk that was made from a Drive file of another id, also when
\* that file has the same name.
C27_OtherFilesChunksStay ==
    [][(pc = "call" /\ ret = NoRet /\ ret' # NoRet)
         => \A r \in store :
               origin[r._id].file # ret'.file.id => r \in store']_<<store, ret>>

\* The characters of a text that are not white space between its paragraphs
NonBlankLength(text) == SumSeq([i \in 1..Len(text) |-> TrimmedLen(text[i])])

\* C28: chunkDocument returns at least one chunk for every document type and
\* every text of at least 50 non-blank characters.
C28_ChunkDocumentGivesAChunk ==
    (ret # NoRet /\ ret.op = "chunkDocument" /\ NonBlankLength(ret.text) >= 50)
      => Len(ret.value) >= 1

\* The errors entries recorded for files: those that runIngestion's catch
\* around listFilesRecursive did not write
FileErrors(result) ==
    Cardinality({k \in 1..Len(result.errors) :
                   result.errors[k].error # "Folder listing failed"})

\* C29: when runIngestion returns, totalFiles is the number of files handled
\* and equals processedFiles plus skippedFiles plus the errors entries recorded
\* for files, and totalChunks is the sum of the chunk counts of the files that
\* were processed.
C29_EveryFileHasOneOutcome ==
    (pc = "done" /\ run.entry = "ingest")
      => /\ run.result.totalFiles = Len(hist.visited)
         /\ run.result.totalFiles =
              run.result.processedFiles + run.result.skippedFiles + FileErrors(run.result)
         /\ run.result.processedFiles = Len(hist.processed)
         /\ run.result.totalChunks = SumSeq(hist.processed)

\* A run returned after a folder listing failed, a file was processed with
\* chunks, a file was skipped and a file threw
C29_Witness ==
    /\ pc = "done" /\ run.entry = "ingest"
    /\ run.result.processedFiles >= 1 /\ run.result.totalChunks >= 1
    /\ run.result.skippedFiles >= 1
    /\ FileErrors(run.result) >= 1
    /\ Len(run.result.errors) > FileErrors(run.result)

\* C30: after two overlapping syncDriveFiles runs have both processed the same
\* changed file, the store holds one fresh chunk set for that file: no chunk of
\* the old version, and the chunks of the new version once.
C30_OverlapLeavesOneFreshSet ==
    (/\ pc = "overlap"
     /\ Len(procs) = 2
     /\ \A c \in 1..2 : procs[c].pos = "done" /\ procs[c].outcome = "processed")
      => /\ \A r \in store : origin[r._id].by # 0
         /\ Cardinality(store) = Len(procs[1].chunks)
=============================================================================
